---- MODULE Spec2Model ----
(***************************************************************************)
(* DeckPilot: the panel hierarchy and dispatch engine.                     *)
(*                                                                         *)
(* Source modelled: deckpilot/elements/panel_nodes.py (Item, Button, the   *)
(* three navigation buttons, PanelPage, Panel), elements/panel_registry.py *)
(* (PanelRegistry), comm/event_bus.py (EventBus), comm/context.py          *)
(* (Context), core/deck_manager.py (DeckManager), plugins/manager.py       *)
(* (PluginManager._mount_panels), simulator/streamdeck_sim.py (key state). *)
(*                                                                         *)
(* panel_nodes.py names two EventType members, INTERNAL_CLOCK_TICK and     *)
(* PANEL_PARENT, that comm/event_bus.py does not define.  The panel model  *)
(* below takes the subscriptions of Item.__init__ and Panel.__init__ as    *)
(* made, so that Panels exist and their methods can be analysed; the       *)
(* wiring between the device callback and the registry is modelled from    *)
(* the EventBus table itself (see subscribers, publish).                   *)
(***************************************************************************)
EXTENDS Integers, Sequences, FiniteSets, Bags, TLC

\* --------------------------------------------------------------- bounds
\* Largest number of children a Panel is given in SpecPages.
MaxChildren == 31

\* ------------------------------------------------------ program constants
\* PanelPage.capacity, cols, rows
capacity == 15
cols == 5
rows == 3
\* the keys held down at once
MaxKeysDown == 2

\* The panels of the tree.  root is built by PanelRegistry; A is declared in
\* root's items.toml, B in A's; M is a plugin panel mounted at run time.
Panels == {"root", "A", "M"}
None == "None"
NoItem == [kind |-> "None", panel |-> None, n |-> 0]
NoHandoff == [src |-> None, dst |-> None]
NoRender == [panel |-> None, page |-> 0]
NoRaw == [key |-> -1, state |-> FALSE, handled |-> 0]
NoCall == [op |-> "None"]
NoExternal == [deck |-> TRUE, conns |-> <<>>, sims |-> <<>>, events |-> <<>>,
               parsed |-> <<>>]
NoPlugins == [dirs |-> <<>>, idx |-> 1, plugins |-> <<>>, log |-> <<>>,
              returned |-> FALSE, started |-> FALSE]
\* LogLevel
DEBUGG == 0
DEBUG == 10
INFO == 20
WARNING == 30
ERROR == 40
CRITICAL == 50
\* Logger.__new__: _level = LogLevel.INFO, _filters = []; nothing logged yet
NoLogger == [level |-> INFO, filters |-> <<>>, console |-> <<>>, calls |-> <<>>]
\* StreamDeckSim.__init__: closed, every key up, no key callback; delivered
\* is the sequence of the calls key_callback has received
NoSim == [is_open |-> FALSE, key_states |-> {}, key_callback |-> FALSE,
          delivered |-> <<>>]
\* EventType.KEY_CHANGED, KEY_PRESSED, KEY_RELEASED
KeyTopics == {"key/changed", "key/pressed", "key/released"}

\* ----------------------------------------------------------------- items
\* An Item object: its class, the Panel it belongs to (for kind "Panel": the
\* Panel itself) and a number telling objects of one class apart.
Button(p, k) == [kind |-> "Button", panel |-> p, n |-> k]
PanelItem(c) == [kind |-> "Panel", panel |-> c, n |-> 0]
ParentButton(p) == [kind |-> "ParentButton", panel |-> p, n |-> 0]
NextPageButton(p, pn) == [kind |-> "NextPageButton", panel |-> p, n |-> pn]
PreviousPageButton(p, pn) == [kind |-> "PreviousPageButton", panel |-> p, n |-> pn]

NavKinds == {"ParentButton", "NextPageButton", "PreviousPageButton"}
\* isinstance(item, Button): the navigation buttons subclass Button
IsButton(item) == item.kind \in NavKinds \cup {"Button"}
IsPanel(item) == item.kind = "Panel"

\* ------------------------------------------------------------- PanelPage
PanelPage(page_number) == [page_number |-> page_number, items |-> <<>>]
n_items(page) == Len(page.items)
space_left(page) == capacity - Len(page.items)
is_full(page) == space_left(page) = 0
is_empty(page) == space_left(page) = capacity

\* PanelPage.push raises ValueError on a full page ...
push_raises(page) == space_left(page) <= 0
\* ... and otherwise appends PageItem(len(self.items), item)
push(page, item) ==
    [page EXCEPT !.items = Append(@, [position |-> Len(@), item |-> item])]

\* PanelPage.get_item: the first PageItem whose position matches, NoItem when
\* the code raises ValueError
get_item_raises(page, position) ==
    ~ \E i \in 1..Len(page.items) : page.items[i].position = position
get_item(page, position) ==
    IF get_item_raises(page, position) THEN NoItem
    ELSE LET i == CHOOSE j \in 1..Len(page.items) :
                    /\ page.items[j].position = position
                    /\ \A m \in 1..(j - 1) : page.items[m].position # position
         IN page.items[i].item

\* --------------------------------------------------- Panel._create_pages
\* The loop state of _create_pages: the pages built so far (the local `page`
\* is always the last of them), items_to_add, and whether push raised.
LastPage(ps) == ps[Len(ps)]
PushOnPage(st, item) ==
    IF push_raises(LastPage(st.pages))
    THEN [st EXCEPT !.raised = TRUE]
    ELSE LET ps == st.pages
         IN [st EXCEPT !.pages = [ps EXCEPT ![Len(ps)] = push(ps[Len(ps)], item)]]

\* A pagination that never injects the PreviousPage button.
AddPreviousPageNever(self, st) == st

\* `if len(pages) > 1 and page.is_empty:` push a PreviousPageButton
AddPreviousPage(self, st) ==
    IF Len(st.pages) > 1 /\ is_empty(LastPage(st.pages))
    THEN PushOnPage(st, PreviousPageButton(self, Len(st.pages) - 1))
    ELSE st

\* `if page.space_left > 1 or (page.space_left == 1 and len(items_to_add) == 0)`:
\* push the item, else push a NextPageButton and put the item back
PlaceItem(self, st, item) ==
    IF \/ space_left(LastPage(st.pages)) > 1
       \/ (space_left(LastPage(st.pages)) = 1 /\ Len(st.items_to_add) = 0)
    THEN PushOnPage(st, item)
    ELSE LET s == PushOnPage(st, NextPageButton(self, Len(st.pages) - 1))
         IN IF s.raised THEN s
            ELSE [s EXCEPT !.items_to_add = <<item>> \o @]

\* A pagination that never starts a new page.
StartNewPageNever(st) == st

\* `if page.is_full and len(items_to_add) != 0:` start a new page
StartNewPage(st) ==
    IF is_full(LastPage(st.pages)) /\ Len(st.items_to_add) # 0
    THEN [st EXCEPT !.pages = Append(@, PanelPage(Len(@)))]
    ELSE st

\* One pass of `for i in range(len(items))`
CreatePagesIteration(self, st) ==
    LET item == Head(st.items_to_add)
        s0 == [st EXCEPT !.items_to_add = Tail(@)]
        s1 == AddPreviousPage(self, s0)
        s2 == IF s1.raised THEN s1 ELSE PlaceItem(self, s1, item)
    IN IF s2.raised THEN s2 ELSE StartNewPage(s2)

RECURSIVE CreatePagesLoop(_, _, _)
CreatePagesLoop(self, st, i) ==
    IF i = 0 \/ st.raised THEN st
    ELSE CreatePagesLoop(self, CreatePagesIteration(self, st), i - 1)

\* The loop runs len(items) times.
LoopCount(its) == Len(its)

\* A first page that never gets the Parent button.
FirstPageNoParent(self, par) == PanelPage(0)

\* `page = PanelPage(page_number=0)`, and `if self.parent:` push a ParentButton
FirstPage(self, par) ==
    IF par # None
    THEN push(PanelPage(0), ParentButton(self))
    ELSE PanelPage(0)

\* Panel._create_pages(items) of a Panel whose parent is par:
\* [pages |-> the list returned, raised |-> a push raised ValueError]
_create_pages(self, par, its) ==
    LET st0 == [pages |-> <<FirstPage(self, par)>>, items_to_add |-> its,
                raised |-> FALSE]
        st == CreatePagesLoop(self, st0, LoopCount(its))
    IN [pages |-> st.pages, raised |-> st.raised]

\* ------------------------------------------------------------------ state
VARIABLES
    parent,               \* Item.parent of every constructed Panel (None: no parent)
    items,                \* Panel.items: the children, in insertion order
    pages,                \* Panel.pages
    active,               \* Panel._active
    current_page_number,  \* Panel.current_page_number
    ctx_active_panel,     \* Context._objects["active_panel"]
    pressed,              \* the Buttons whose _pressed flag is True
    key_states,           \* the keys the device reports as held down
    pc,                   \* where the key-event thread stands: "idle" or "handoff"
    kt,                   \* the panels of the hand-off under way: self and the target
    last_render,          \* the <<panel, page>> Panel.render drew last
    tick_target,          \* the recipient of the last visible tick
    subscribers,          \* EventBus._subscribers for the key topics
    raw,                  \* the last raw key notification and the handlers it ran
    call,                 \* the last EventBus call: arguments, handlers run, result
    oplog,                \* what the key operation under way has emitted and drawn
    exc,                  \* the exception the last operation raised to its caller
    pm,                   \* the PluginManager: directory listing, loop position, _plugins, steps done
    ext,                  \* the external command listener: connections served, key simulations
    logger,               \* the Logger singleton: _level, _filters, what _console.log received
    simdeck               \* the StreamDeckSim: _is_open, _key_states, key_callback and its calls

vars == <<parent, items, pages, active, current_page_number, ctx_active_panel,
          pressed, key_states, pc, kt, last_render, tick_target, subscribers,
          raw, call, oplog, exc, pm, ext, logger, simdeck>>
tree_vars == <<parent, items, pages>>
nav_vars == <<active, current_page_number, ctx_active_panel, last_render>>
key_vars == <<pressed, key_states>>
thread_vars == <<pc, kt>>
io_vars == <<logger, simdeck>>
svc_vars == <<pm, ext, io_vars>>
\* the services no panel operation touches, as constructed
InitIo == logger = NoLogger /\ simdeck = NoSim

Built == DOMAIN parent

\* Buttons are named after their number, panels after themselves.
ButtonsOf(p) == {i \in 1..Len(items[p]) : items[p][i].kind = "Button"}
NameInItems(p, item) == \E i \in 1..Len(items[p]) : items[p][i] = item

\* Panel.add_button / Panel.add_child: a name already present is refused
add_item(p, item) ==
    IF NameInItems(p, item) THEN items
    ELSE [items EXCEPT ![p] = Append(@, item)]

\* Panel.refresh_layout
refresh_layout(p, its) ==
    LET r == _create_pages(p, parent[p], its[p])
    IN /\ pages' = IF r.raised THEN pages ELSE [pages EXCEPT ![p] = r.pages]
       /\ exc' = IF r.raised THEN "ValueError" ELSE None

\* The order in which the Panels are constructed.
PanelOrder == <<"root", "A", "M">>
\* Panel.__init__: every Panel subscribes its on_key_pressed and
\* on_key_released; nothing in the program subscribes to KEY_CHANGED.
\* PanelRegistry.__init__ calls subscribe("key_change", handler), one
\* argument short of subscribe(user, event_type, callback): no record is made.
Subscriptions(built) ==
    LET ps == SelectSeq(PanelOrder, LAMBDA p : p \in built)
    IN [t \in KeyTopics |->
          IF t = "key/changed" THEN <<>>
          ELSE [i \in 1..Len(ps) |->
                   [user |-> ps[i],
                    callback |-> IF t = "key/pressed" THEN "on_key_pressed"
                                 ELSE "on_key_released"]]]

\* ----------------------------------------------- SpecPages: pagination
\* Either root alone (no parent), or root holding the sub-panel A (parent
\* root).  One Panel at a time is grown up to MaxChildren children.
PageTrees ==
    { [p \in {"root"} |-> None],
      [p \in {"root", "A"} |-> IF p = "root" THEN None ELSE "root"] }
BaseItems(p) == IF p = "root" /\ "A" \in Built THEN <<PanelItem("A")>> ELSE <<>>

InitPages ==
    /\ parent \in PageTrees
    /\ items = [p \in Built |-> BaseItems(p)]
    /\ pages = [p \in Built |-> _create_pages(p, parent[p], BaseItems(p)).pages]
    /\ active = [p \in Built |-> p = "root"]
    /\ current_page_number = [p \in Built |-> 0]
    /\ ctx_active_panel = None
    /\ pressed = {}
    /\ key_states = {}
    /\ pc = "idle"
    /\ kt = NoHandoff
    /\ last_render = NoRender
    /\ tick_target = None
    /\ subscribers = Subscriptions(Built)
    /\ raw = NoRaw
    /\ call = NoCall
    /\ pm = NoPlugins
    /\ ext = NoExternal
    /\ InitIo
    /\ oplog = <<>>
    /\ exc = None

\* add_button(button_instance), the layout left as it is
PagesAddButton(p) ==
    /\ UNCHANGED <<call, oplog, svc_vars>>
    /\ Len(items[p]) < MaxChildren
    /\ \A q \in Built \ {p} : items[q] = BaseItems(q)
    /\ \E k \in 1..(Cardinality(ButtonsOf(p)) + 1) :
          items' = add_item(p, Button(p, k))
    /\ exc' = None
    /\ UNCHANGED <<parent, pages, nav_vars, key_vars, thread_vars, tick_target,
                   subscribers, raw>>

PagesRefreshLayout(p) ==
    /\ UNCHANGED <<call, oplog, svc_vars>>
    /\ refresh_layout(p, items)
    /\ UNCHANGED <<parent, items, nav_vars, key_vars, thread_vars, tick_target,
                   subscribers, raw>>

NextPages ==
    \/ \E p \in Built : PagesAddButton(p)
    \/ \E p \in Built : PagesRefreshLayout(p)

SpecPages == InitPages /\ [][NextPages]_vars

\* ------------------------------------------------ pagination properties
\* The Items a page holds, slot by slot.
PageContent(page) == [i \in 1..Len(page.items) |-> page.items[i].item]
\* pages[p] is the layout of the children p has now.
Fresh(p) ==
    LET r == _create_pages(p, parent[p], items[p])
    IN ~r.raised /\ pages[p] = r.pages
IsNav(item) == item.kind \in NavKinds
\* The slots in use on the pages of p, as <<page index, slot index>>.
Slots(p) ==
    {x \in (1..Len(pages[p])) \X (1..capacity) : x[2] <= Len(pages[p][x[1]].items)}
ItemAt(p, x) == pages[p][x[1]].items[x[2]].item
\* How often an Item occurs among the children / on the pages of p.
OccInItems(p, item) == Cardinality({i \in 1..Len(items[p]) : items[p][i] = item})
OccOnPages(p, item) == Cardinality({x \in Slots(p) : ItemAt(p, x) = item})
ChildrenOf(p) == {items[p][i] : i \in 1..Len(items[p])}
NonNavOnPages(p) == {ItemAt(p, x) : x \in {y \in Slots(p) : ~IsNav(ItemAt(p, y))}}
\* The number of children placed on pages 1..j of p.
ChildrenThrough(p, j) ==
    Cardinality({x \in Slots(p) : x[1] <= j /\ ~IsNav(ItemAt(p, x))})
HasNextPageButton(page) ==
    \E i \in 1..Len(page.items) : page.items[i].item.kind = "NextPageButton"

\* C1: pagination completeness. After _create_pages / refresh_layout the
\* multiset of a Panel's items equals the multiset of the non-navigation
\* Items on its pages: no child is lost, none is duplicated.
PaginationCompleteness ==
    \A p \in Built :
        Fresh(p) =>
            \A item \in ChildrenOf(p) \cup NonNavOnPages(p) :
                OccInItems(p, item) = OccOnPages(p, item)

\* C2: a Panel with a parent and 17 child buttons has exactly 2 pages,
\* page 0 = [Parent, 13 buttons, NextPage] and page 1 = [PreviousPage,
\* 4 buttons], the buttons in insertion order.
Scenario17Buttons ==
    \A p \in Built :
        (/\ Fresh(p)
         /\ parent[p] # None
         /\ Len(items[p]) = 17
         /\ \A i \in 1..Len(items[p]) : items[p][i].kind = "Button")
        => /\ Len(pages[p]) = 2
           /\ PageContent(pages[p][1]) =
                 <<ParentButton(p)>> \o SubSeq(items[p], 1, 13)
                                     \o <<NextPageButton(p, 0)>>
           /\ PageContent(pages[p][2]) =
                 <<PreviousPageButton(p, 1)>> \o SubSeq(items[p], 14, 17)

\* C3: overflow boundary. A Panel with a parent and exactly `capacity`
\* children has page 0 = [Parent, capacity - 2 children, NextPage] and
\* page 1 = [PreviousPage, 1 child] (the child that follows those of page 0).
OverflowBoundary ==
    \A p \in Built :
        (Fresh(p) /\ parent[p] # None /\ Len(items[p]) = capacity)
        => /\ Len(pages[p]) = 2
           /\ PageContent(pages[p][1]) =
                 <<ParentButton(p)>> \o SubSeq(items[p], 1, capacity - 2)
                                     \o <<NextPageButton(p, 0)>>
           /\ PageContent(pages[p][2]) =
                 <<PreviousPageButton(p, 1), items[p][capacity - 1]>>
OverflowBoundaryWitness ==
    \E p \in Built : Fresh(p) /\ parent[p] # None /\ Len(items[p]) = capacity

\* C4: last-item placement. A Panel with a parent and capacity - 1 children
\* has one page, the Parent button followed by all its children, and no
\* NextPage button; in general the final pending item is placed in the last
\* free slot of a page: a NextPage button never takes the slot of the last
\* child, and no layout ends with one slot free and one child unplaced.
Unplaced(p) == Len(items[p]) - ChildrenThrough(p, Len(pages[p]))
LastItemPlacement ==
    \A p \in Built :
        Fresh(p) =>
            /\ (parent[p] # None /\ Len(items[p]) = capacity - 1)
                  => /\ Len(pages[p]) = 1
                     /\ PageContent(pages[p][1]) = <<ParentButton(p)>> \o items[p]
            /\ \A j \in 1..Len(pages[p]) :
                  HasNextPageButton(pages[p][j])
                     => ChildrenThrough(p, j) + 2 <= Len(items[p])
            /\ ~(space_left(LastPage(pages[p])) = 1 /\ Unplaced(p) = 1)

\* C5: page shape. Every page of every Panel holds between 0 and capacity
\* slots, holding positions 0..len(page)-1 in slot order, and no push raises
\* while the children are paginated.
PageShape ==
    \A p \in Built :
        /\ ~_create_pages(p, parent[p], items[p]).raised
        /\ exc # "ValueError"
        /\ \A j \in 1..Len(pages[p]) :
              /\ 0 <= Len(pages[p][j].items)
              /\ Len(pages[p][j].items) <= capacity
              /\ \A i \in 1..Len(pages[p][j].items) :
                    pages[p][j].items[i].position = i - 1
PageShapeWitness ==
    \E p \in Built :
        /\ Fresh(p) /\ Len(pages[p]) >= 3
        /\ is_full(pages[p][1]) /\ is_full(pages[p][2])

\* C6: a Panel with zero children has exactly one page: empty without a
\* parent, the Parent button alone at position 0 with a parent.
ZeroChildren ==
    \A p \in Built :
        (Fresh(p) /\ Len(items[p]) = 0)
        => /\ Len(pages[p]) = 1
           /\ parent[p] = None => pages[p][1].items = <<>>
           /\ parent[p] # None =>
                 pages[p][1].items = <<[position |-> 0, item |-> ParentButton(p)]>>
ZeroChildrenWitness ==
    \E p \in Built :
        /\ parent[p] # None /\ Fresh(p) /\ Len(items[p]) = 0
        /\ PageContent(pages[p][1]) = <<ParentButton(p)>>

\* C32: for every Panel and every number of children, every page with
\* index >= 1 has a PreviousPage button at position 0, and page 0 has a
\* Parent button at position 0 exactly when the Panel has a parent (so
\* that slot 0 leads back to page 0 from any page).
BackButtons ==
    \A p \in Built :
        Fresh(p) =>
            /\ \A j \in 2..Len(pages[p]) :
                  /\ Len(pages[p][j].items) >= 1
                  /\ pages[p][j].items[1].position = 0
                  /\ pages[p][j].items[1].item.kind = "PreviousPageButton"
            /\ parent[p] # None
                  <=> /\ Len(pages[p][1].items) >= 1
                      /\ pages[p][1].items[1].position = 0
                      /\ pages[p][1].items[1].item.kind = "ParentButton"

\* C33: for every Panel and every number of children, a page carries a
\* NextPage button if and only if it is not the last page, that button
\* sits in the last slot (position capacity - 1) of a full page, and every
\* page other than page 0 holds at least one non-navigation Item.
ForwardButtons ==
    \A p \in Built :
        Fresh(p) =>
            \A j \in 1..Len(pages[p]) :
                /\ HasNextPageButton(pages[p][j]) <=> j < Len(pages[p])
                /\ \A i \in 1..Len(pages[p][j].items) :
                      pages[p][j].items[i].item.kind = "NextPageButton"
                         => /\ is_full(pages[p][j])
                            /\ i = capacity
                            /\ pages[p][j].items[i].position = capacity - 1
                /\ j >= 2 => \E i \in 1..Len(pages[p][j].items) :
                                ~IsNav(pages[p][j].items[i].item)

\* ------------------------------------------------- Spec: navigation
\* The panel tree root -> A as PanelRegistry builds it, the plugin panel M
\* mounted later, one key-event thread and the tick thread.
\* The keys the user works: the first two slots and the last slot of a page.
Keys == {0, 1, capacity - 1}
\* The key _simulate_key_press pushes.
PushKeys == {0}
ButtonsNamed(p, n) == [i \in 1..n |-> Button(p, i)]

\* Panel.get_active_panel
get_active_panel(p) == IF active[p] THEN p ELSE ctx_active_panel

\* self.pages[self.current_page_number], a Python list index
page_index_raises(p) ==
    \/ current_page_number[p] >= Len(pages[p])
    \/ current_page_number[p] < 0 - Len(pages[p])
current_page(p) ==
    IF current_page_number[p] >= 0 THEN pages[p][current_page_number[p] + 1]
    ELSE pages[p][Len(pages[p]) + current_page_number[p] + 1]

\* Panel.has_next_page / has_previous_page / has_parent
has_next_page(p) == current_page_number[p] < Len(pages[p]) - 1
has_previous_page(p) == current_page_number[p] > 0
has_parent(p) == parent[p] # None

\* One entry of the log of a key operation: the notification itself, an
\* event a Panel received, or a call of the renderer.
LogEntry(ev, p, k, item, icon) ==
    [ev |-> ev, panel |-> p, key |-> k, item |-> item, icon |-> icon]
\* Panel.render on page n of p: clear_deck, then ITEM_RENDERED to the Item
\* of every slot and render_key of the KeyDisplay it returns.
RenderLogNoClear(p, n) ==
    [i \in 1..Len(pages[p][n + 1].items) |->
        LogEntry("render_key", p, i - 1, pages[p][n + 1].items[i].item,
                 "inactive")]
RenderLog(p, n) ==
    <<LogEntry("clear_deck", p, -1, NoItem, "None")>>
        \o [i \in 1..Len(pages[p][n + 1].items) |->
               LogEntry("render_key", p, i - 1, pages[p][n + 1].items[i].item,
                        "inactive")]

\* Panel.render: the current page is drawn
render_skipped(p, log) ==
    exc' = None /\ oplog' = log /\ UNCHANGED last_render
render(p, log) ==
    IF page_index_raises(p)
    THEN exc' = "IndexError" /\ oplog' = log /\ UNCHANGED last_render
    ELSE /\ exc' = None
         /\ last_render' = [panel |-> p, page |-> current_page_number[p]]
         /\ oplog' = log \o RenderLog(p, current_page_number[p])

\* the active setter with value False, as go_to_parent and the key release
\* over a sub-panel call it on self
deactivate_never(act, p) == act
deactivate(act, p) == [act EXCEPT ![p] = FALSE]

\* the active setter with value True: Context.set_active_panel, then _active
StartHandoff_first_page(src, dst, log) ==
    /\ oplog' = IF active[dst] THEN log
                ELSE Append(log, LogEntry("activated", dst, -1, NoItem, "None"))
    /\ active' = [active EXCEPT ![dst] = TRUE]
    /\ ctx_active_panel' = dst
    /\ pc' = "handoff"
    /\ kt' = [src |-> src, dst |-> dst]
    /\ exc' = None
    /\ current_page_number' = [current_page_number EXCEPT ![dst] = 0]
    /\ UNCHANGED last_render
StartHandoff(src, dst, log) ==
    /\ oplog' = IF active[dst] THEN log
                ELSE Append(log, LogEntry("activated", dst, -1, NoItem, "None"))
    /\ active' = [active EXCEPT ![dst] = TRUE]
    /\ ctx_active_panel' = dst
    /\ pc' = "handoff"
    /\ kt' = [src |-> src, dst |-> dst]
    /\ exc' = None
    /\ UNCHANGED <<current_page_number, last_render>>

\* self.current_page_number += 1
page_after_skip(n) == n + 2
page_after(n) == n + 1

\* PANEL_PAGE_CHANGED sent to the Panel with data=(old page, new page)
PageChanged(p, old, new) ==
    [ev |-> "page_changed", panel |-> p, key |-> -1, item |-> NoItem,
     icon |-> "None", old |-> old, new |-> new]

\* Panel.next_page / Panel.previous_page
next_page(p, log) ==
    LET changed == Append(log, PageChanged(p, current_page_number[p],
                                           current_page_number[p] + 1))
    IN IF current_page_number[p] < Len(pages[p]) - 1
       THEN /\ current_page_number' =
                  [current_page_number EXCEPT ![p] = page_after(@)]
            /\ IF page_after(current_page_number[p]) >= Len(pages[p])
               THEN exc' = "IndexError" /\ oplog' = changed /\ UNCHANGED last_render
               ELSE /\ exc' = None
                    /\ last_render' =
                          [panel |-> p, page |-> page_after(current_page_number[p])]
                    /\ oplog' = changed
                           \o RenderLog(p, page_after(current_page_number[p]))
       ELSE /\ UNCHANGED <<current_page_number, last_render>>
            /\ exc' = None /\ oplog' = log
previous_page_stay(p, log) ==
    /\ UNCHANGED <<current_page_number, last_render>>
    /\ exc' = None /\ oplog' = log
previous_page(p, log) ==
    IF current_page_number[p] > 0
    THEN /\ current_page_number' = [current_page_number EXCEPT ![p] = @ - 1]
         /\ last_render' = [panel |-> p, page |-> current_page_number[p] - 1]
         /\ exc' = None
         /\ oplog' = Append(log, PageChanged(p, current_page_number[p],
                                             current_page_number[p] - 1))
                         \o RenderLog(p, current_page_number[p] - 1)
    ELSE /\ UNCHANGED <<current_page_number, last_render>>
         /\ exc' = None /\ oplog' = log

Init ==
    /\ parent = [p \in {"root", "A"} |-> IF p = "root" THEN None ELSE "root"]
    /\ \E a \in {0, capacity - 1, capacity} :
          items = [p \in {"root", "A"} |->
                      IF p = "root" THEN <<PanelItem("A")>>
                      ELSE ButtonsNamed(p, a)]
    /\ pages = [p \in Built |-> _create_pages(p, parent[p], items[p]).pages]
    /\ active = [p \in Built |-> p = "root"]
    /\ current_page_number = [p \in Built |-> 0]
    /\ ctx_active_panel = None
    /\ pressed = {}
    /\ key_states = {}
    /\ pc = "idle"
    /\ kt = NoHandoff
    /\ last_render = NoRender
    /\ tick_target = None
    /\ subscribers = Subscriptions(Built)
    /\ raw = NoRaw
    /\ call = NoCall
    /\ pm = NoPlugins
    /\ ext = NoExternal
    /\ InitIo
    /\ oplog = <<>>
    /\ exc = None

\* `except ValueError as e:` in _handle_key_pressed / _handle_key_released:
\* the failed lookup is logged, and no exception goes on to the caller
ValueErrorEscapes == "ValueError"
ValueErrorCaught == None

\* PanelRegistry._on_key_change(deck, k, True) -> Panel.on_key_pressed ->
\* Panel._handle_key_pressed: the Item under the key gets ITEM_PRESSED.
OnKeyPressed(k) ==
    /\ UNCHANGED <<call, svc_vars>>
    /\ pc = "idle"
    /\ k \notin key_states
    /\ Cardinality(key_states) < MaxKeysDown
    /\ key_states' = key_states \cup {k}
    /\ LET ap == get_active_panel("root")
           quiet(e) == /\ exc' = e
                       /\ oplog' = <<LogEntry("press", ap, k, NoItem, "None")>>
                       /\ UNCHANGED pressed
       IN IF ap = None THEN quiet("AttributeError")
          ELSE IF ~active[ap] THEN quiet(None)
          ELSE IF page_index_raises(ap) THEN quiet("IndexError")
          ELSE IF get_item_raises(current_page(ap), k) THEN quiet(ValueErrorCaught)
          ELSE LET item == get_item(current_page(ap), k)
               IN /\ pressed' = IF IsButton(item) THEN pressed \cup {item}
                                ELSE pressed
                  /\ oplog' = <<LogEntry("press", ap, k, item, "None"),
                                LogEntry("key_display", ap, k, item, "active")>>
                  /\ exc' = None
    /\ UNCHANGED <<tree_vars, nav_vars, thread_vars, tick_target, subscribers, raw>>

\* PanelRegistry._on_key_change(deck, k, False) -> Panel.on_key_released ->
\* Panel._handle_key_released: the Item under the key gets ITEM_RELEASED;
\* a navigation button calls back into its Panel, a sub-panel is entered.
OnKeyReleased(k) ==
    /\ UNCHANGED <<call, svc_vars>>
    /\ pc = "idle"
    /\ k \in key_states
    /\ key_states' = key_states \ {k}
    /\ LET ap == get_active_panel("root")
           quiet(e) == /\ exc' = e
                       /\ oplog' = <<LogEntry("release", ap, k, NoItem, "None")>>
                       /\ UNCHANGED <<nav_vars, thread_vars, pressed>>
       IN IF ap = None THEN quiet("AttributeError")
          ELSE IF ~active[ap] THEN quiet(None)
          ELSE IF page_index_raises(ap) THEN quiet("IndexError")
          ELSE IF get_item_raises(current_page(ap), k) THEN quiet(ValueErrorCaught)
          ELSE LET item == get_item(current_page(ap), k)
                   head == <<LogEntry("release", ap, k, item, "None")>>
               IN CASE item.kind = "Button" ->
                         /\ pressed' = pressed \ {item}
                         /\ oplog' = Append(head,
                                 LogEntry("key_display", ap, k, item, "inactive"))
                         /\ exc' = None
                         /\ UNCHANGED <<nav_vars, thread_vars>>
                    [] item.kind = "ParentButton" ->
                         /\ UNCHANGED pressed
                         /\ IF has_parent(item.panel)
                            THEN StartHandoff(item.panel, parent[item.panel], head)
                            ELSE /\ exc' = None /\ oplog' = head
                                 /\ UNCHANGED <<nav_vars, thread_vars>>
                    [] item.kind = "NextPageButton" ->
                         /\ next_page(item.panel, head)
                         /\ UNCHANGED <<active, ctx_active_panel, thread_vars, pressed>>
                    [] item.kind = "PreviousPageButton" ->
                         /\ previous_page(item.panel, head)
                         /\ UNCHANGED <<active, ctx_active_panel, thread_vars, pressed>>
                    [] item.kind = "Panel" ->
                         /\ UNCHANGED pressed
                         /\ StartHandoff(ap, item.panel, head)
    /\ UNCHANGED <<tree_vars, tick_target, subscribers, raw>>

\* PANEL_PARENT sent to the Panel on display, Panel.on_panel_parent_pressed
\* -> Panel.go_to_parent, by a caller other than the Panel's Parent button.
GoToParent(p) ==
    /\ UNCHANGED <<call, svc_vars>>
    /\ pc = "idle"
    /\ p = get_active_panel("root")
    /\ LET head == <<LogEntry("go_to_parent", p, -1, NoItem, "None")>>
       IN IF has_parent(p)
          THEN StartHandoff(p, parent[p], head)
          ELSE /\ exc' = None /\ oplog' = head
               /\ UNCHANGED <<nav_vars, thread_vars>>
    /\ UNCHANGED <<tree_vars, key_vars, tick_target, subscribers, raw>>

\* The rest of go_to_parent and of the release over a sub-panel:
\* self.active = False, then PANEL_RENDERED to the target.
HandoffComplete ==
    /\ UNCHANGED <<call, svc_vars>>
    /\ pc = "handoff"
    /\ active' = deactivate(active, kt.src)
    /\ render(kt.dst,
              IF active[kt.src]
              THEN Append(oplog, LogEntry("deactivated", kt.src, -1, NoItem, "None"))
              ELSE oplog)
    /\ pc' = "idle"
    /\ kt' = NoHandoff
    /\ UNCHANGED <<tree_vars, current_page_number, ctx_active_panel, key_vars,
                   tick_target, subscribers, raw>>

\* DeckManager._send_periodic_event: CLOCK_TICK to Context.active_panel,
\* whose on_periodic_tick walks its current page.
Tick ==
    /\ UNCHANGED <<call, oplog, svc_vars>>
    /\ tick_target' = ctx_active_panel
    /\ exc' = IF ctx_active_panel # None /\ page_index_raises(ctx_active_panel)
              THEN "IndexError" ELSE None
    /\ UNCHANGED <<tree_vars, nav_vars, key_vars, thread_vars, subscribers, raw>>

\* DeckManager._key_change_callback(deck, k, state), called by the device
\* and by _simulate_key_press: publish(KEY_CHANGED, (deck, k, state)) runs
\* the handlers subscribed to that topic.
KeyChangeCallback(k, state) ==
    /\ UNCHANGED <<call, oplog, svc_vars>>
    /\ subscribers["key/changed"] = <<>>
    /\ raw' = [key |-> k, state |-> state,
               handled |-> Len(subscribers["key/changed"])]
    /\ exc' = None
    /\ UNCHANGED <<tree_vars, nav_vars, key_vars, thread_vars, tick_target,
                   subscribers>>

\* PluginManager._mount_panels: the plugin panel M is constructed with
\* parent = target and active = False, added to the target's children,
\* and the target's layout is refreshed.
MountPanel(target) ==
    /\ UNCHANGED <<call, oplog, svc_vars>>
    /\ "M" \notin Built
    /\ LET built == Built \cup {"M"}
           par == [p \in built |-> IF p = "M" THEN target ELSE parent[p]]
           own == ButtonsNamed("M", 1)
           its == [p \in built |->
                      IF p = "M" THEN own
                      ELSE IF p = target THEN Append(items[p], PanelItem("M"))
                      ELSE items[p]]
           r == _create_pages(target, parent[target], its[target])
       IN /\ parent' = par
          /\ items' = its
          /\ pages' = [p \in built |->
                          IF p = "M" THEN _create_pages("M", target, own).pages
                          ELSE IF p = target /\ ~r.raised THEN r.pages
                          ELSE pages[p]]
          /\ exc' = IF r.raised THEN "ValueError" ELSE None
          /\ active' = [p \in built |-> IF p = "M" THEN FALSE ELSE active[p]]
          /\ current_page_number' =
                [p \in built |-> IF p = "M" THEN 0 ELSE current_page_number[p]]
          /\ subscribers' = Subscriptions(built)
    /\ UNCHANGED <<ctx_active_panel, last_render, key_vars, thread_vars,
                   tick_target, raw>>

Next ==
    \/ \E k \in Keys : OnKeyPressed(k)
    \/ \E k \in Keys : OnKeyReleased(k)
    \/ \E p \in Built : GoToParent(p)
    \/ HandoffComplete
    \/ Tick
    \/ \E k \in PushKeys, state \in BOOLEAN : KeyChangeCallback(k, state)
    \/ \E target \in Built : MountPanel(target)

Spec == Init /\ [][Next]_vars

\* ------------------------------------------------ navigation properties
ActivePanels == {p \in Built : active[p]}

\* C7: activation exclusivity. Whenever no navigation operation is under
\* way (every key release, go_to_parent, page change and mount that was
\* started has completed), exactly one Panel of the tree is active.
ActivationExclusivity ==
    pc = "idle" => Cardinality(ActivePanels) = 1

\* A sub-panel was entered and left again through its Parent button, and
\* the plugin panel is mounted.
ActivationExclusivityWitness ==
    /\ pc = "idle"
    /\ "M" \in Built
    /\ ParentButton("A") \in pressed
    /\ ActivePanels = {"root"}
    /\ last_render.panel = "root"

\* C8: at every instant, the steps inside go_to_parent and inside a key
\* release over a sub-panel included, at most one Panel is active.
AtMostOneActive ==
    Cardinality(ActivePanels) <= 1

\* C9: for every Panel 0 <= current_page_number < len(pages), and
\* pages[current_page_number] does not fail in render, key handling or
\* tick handling.
PageIndexInRange ==
    /\ \A p \in Built :
          0 <= current_page_number[p] /\ current_page_number[p] < Len(pages[p])
    /\ exc # "IndexError"

\* A Panel stands on its last page, reached through its NextPage button,
\* after the mount of the plugin panel has refreshed its layout.
PageIndexInRangeWitness ==
    \E p \in Built :
        /\ "M" \in Built /\ parent["M"] = p
        /\ current_page_number[p] = Len(pages[p]) - 1
        /\ current_page_number[p] > 0
        /\ NextPageButton(p, 0) \in pressed
        /\ last_render = [panel |-> p, page |-> current_page_number[p]]

\* C10: key-event routing. Every raw key-change notification that
\* DeckManager._key_change_callback receives is handled exactly once, by
\* the key handler of the active Panel.
KeyEventRouting ==
    raw # NoRaw => raw.handled = 1

\* ---------------------------------------------------------------------------
\* Key handling and hand-off properties, read off the operation log
\* ---------------------------------------------------------------------------

\* the first entry of the log: the notification being handled
OpHeader == oplog[1]
\* the log ends with a full redraw of the current page of p: the deck is
\* cleared, then every slot of the page is drawn, in order
FullRedraw(log, p) ==
    LET n == Len(current_page(p).items)
    IN /\ Len(log) > n
       /\ log[Len(log) - n].ev = "clear_deck"
       /\ \A i \in 1..n :
            /\ log[Len(log) - n + i].ev = "render_key"
            /\ log[Len(log) - n + i].panel = p
            /\ log[Len(log) - n + i].key = i - 1
            /\ log[Len(log) - n + i].item = current_page(p).items[i].item
\* the events of a log, without the header
EventAt(log, ev) == {i \in 2..Len(log) : log[i].ev = ev}

\* C16: round trip. For every Button under a key of the active Panel's
\* current page, a press notification sets the Button's pressed flag and
\* yields a Display Descriptor, and a release notification for the key
\* clears the flag and yields a second Display Descriptor.
RoundTrip ==
    (oplog # <<>> /\ OpHeader.ev \in {"press", "release"} /\ IsButton(OpHeader.item))
        => /\ (OpHeader.ev = "press") => (OpHeader.item \in pressed)
           /\ (OpHeader.ev = "release") => (OpHeader.item \notin pressed)
           /\ Len(oplog) = 2
           /\ oplog[2].ev = "key_display"
           /\ oplog[2].key = OpHeader.key
           /\ oplog[2].icon = IF OpHeader.ev = "press" THEN "active" ELSE "inactive"

\* the key k has no Item on the current page of the active Panel
KeyHasNoItem(k) ==
    LET ap == get_active_panel("root")
    IN /\ ap # None
       /\ active[ap]
       /\ ~page_index_raises(ap)
       /\ k >= Len(current_page(ap).items)

\* C17: a press or release notification for a key that has no Item on the
\* active Panel's current page is a no-op: no Item handler runs and no key
\* is rendered (the log holds the notification alone), the active panel,
\* current_page_number and every pressed flag are unchanged, and no
\* exception reaches the caller.
NoItemNoOp ==
    [][\A k \in Keys :
          ((OnKeyPressed(k) \/ OnKeyReleased(k)) /\ KeyHasNoItem(k))
              => /\ UNCHANGED <<active, ctx_active_panel, current_page_number,
                                pressed, last_render, pc>>
                 /\ exc' = None
                 /\ oplog' = <<LogEntry(oplog'[1].ev, get_active_panel("root"),
                                        k, NoItem, "None")>>]_vars
NoItemNoOpWitness ==
    /\ oplog # <<>>
    /\ OpHeader.ev = "release"
    /\ OpHeader.item = NoItem
    /\ OpHeader.panel \in Built
    /\ active[OpHeader.panel]
    /\ ~page_index_raises(OpHeader.panel)
    /\ OpHeader.key >= Len(current_page(OpHeader.panel).items)
    /\ pressed # {}
    /\ exc = None

\* C18: entering a sub-panel. When the release handled by the active Panel
\* P is over a child Panel C, the completed operation leaves P inactive, C
\* active and registered in the Context, and the current page of C drawn
\* as a full redraw; a press alone changes no activation.
SubPanelRelease ==
    [][/\ (HandoffComplete /\ OpHeader.ev = "release"
                           /\ OpHeader.item.kind = "Panel")
            => LET P == OpHeader.panel
                   C == OpHeader.item.panel
               IN /\ ~active'[P]
                  /\ active'[C]
                  /\ ctx_active_panel' = C
                  /\ exc' = None
                  /\ last_render' = [panel |-> C, page |-> current_page_number[C]]
                  /\ FullRedraw(oplog', C)
       /\ \A k \in Keys :
            OnKeyPressed(k) => UNCHANGED <<active, ctx_active_panel>>]_vars
SubPanelReleaseWitness ==
    /\ pc = "idle"
    /\ oplog # <<>>
    /\ OpHeader.ev = "release"
    /\ OpHeader.item = PanelItem("A")
    /\ OpHeader.panel = "root"
    /\ ~active["root"]
    /\ active["A"]
    /\ ctx_active_panel = "A"
    /\ Len(current_page("A").items) = capacity
    /\ FullRedraw(oplog, "A")

\* C19: hand-off order. In a hand-off between two panels the `deactivated`
\* event of the panel left fires before the `activated` event of the panel
\* entered, and the entered panel is rendered only after both.
HandoffOrder ==
    \A a \in EventAt(oplog, "activated") :
        /\ \A d \in EventAt(oplog, "deactivated") : d < a
        /\ \A c \in EventAt(oplog, "clear_deck") : a < c

\* the operation in the log is a go_to_parent, called directly or by the
\* release of the Parent button
IsGoToParent(h) == h.ev = "go_to_parent" \/ h.item.kind = "ParentButton"

\* C20: go_to_parent on a Panel without a parent changes nothing: no
\* activation change, no event, no render. On a Panel with a parent the
\* completed operation leaves the Panel inactive, its parent active, and
\* the parent's current page drawn again.
GoToParentEffect ==
    [][/\ \A p \in Built :
            (GoToParent(p) /\ ~has_parent(p))
                => /\ UNCHANGED <<active, ctx_active_panel, current_page_number,
                                  last_render, pc>>
                   /\ exc' = None
                   /\ oplog' = <<LogEntry("go_to_parent", p, -1, NoItem, "None")>>
       /\ (HandoffComplete /\ IsGoToParent(OpHeader))
            => LET p == kt.src
               IN /\ has_parent(p)
                  /\ kt.dst = parent[p]
                  /\ ~active'[p]
                  /\ active'[parent[p]]
                  /\ last_render' = [panel |-> parent[p],
                                     page |-> current_page_number[parent[p]]]
                  /\ FullRedraw(oplog', parent[p])]_vars
GoToParentEffectWitness ==
    /\ pc = "idle"
    /\ oplog # <<>>
    /\ OpHeader.ev = "go_to_parent"
    /\ OpHeader.panel = "A"
    /\ ~active["A"]
    /\ active["root"]
    /\ last_render = [panel |-> "root", page |-> 0]
    /\ FullRedraw(oplog, "root")

\* C39: activating and deactivating a Panel (the hand-off into a sub-panel
\* and go_to_parent, each in its two steps) change no Panel's
\* current_page_number and no Panel's pages, and the completed hand-off
\* draws the Panel entered on the page it was left on.
ActivationFrame ==
    [][/\ (pc = "idle" /\ pc' = "handoff")
            => UNCHANGED <<current_page_number, pages>>
       /\ HandoffComplete
            => /\ UNCHANGED <<current_page_number, pages>>
               /\ last_render' = [panel |-> kt.dst,
                                  page |-> current_page_number[kt.dst]]]_vars
\* The sub-panel was left on its second page, and entered again: it is
\* drawn on its second page.
ActivationFrameWitness ==
    /\ pc = "idle"
    /\ oplog # <<>>
    /\ OpHeader.ev = "release"
    /\ OpHeader.item = PanelItem("A")
    /\ active["A"]
    /\ current_page_number["A"] = 1
    /\ last_render = [panel |-> "A", page |-> 1]
    /\ FullRedraw(oplog, "A")

\* ------------------------------------------------ SpecBus: the EventBus
\* Largest number of subscriptions held by the bus.
MaxSubscriptions == 3
BusUsers == {"u1", "u2"}
Callbacks == {"h1", "h2"}
\* The values of the EventType members.
EventType ==
    {"exit", "initialized", "clock/tick", "key/changed", "key/pressed",
     "key/released", "item/rendered", "item/pressed", "item/released",
     "panel/rendered", "panel/activated", "panel/deactivated",
     "panel/page/changed", "panel/page/next", "panel/page/previous"}
\* The topics of SpecBus: two EventType members, and the topic the OBS plugin
\* publishes as a plain str.
BusEventTypes == {"clock/tick", "key/changed"}
CustomTopics == {"obs.scene.activate"}
BusTopics == BusEventTypes \cup CustomTopics
\* A topic argument is an EventType member or a plain str; both hash to
\* the same key of _subscribers when their values are equal.
TopicArgs ==
    {[value |-> v, member |-> TRUE] : v \in BusEventTypes}
        \cup {[value |-> v, member |-> FALSE] : v \in BusTopics}

\* `event_type in EventType`: true of a member.  Of a plain str,
\* EnumMeta.__contains__ raises TypeError before Python 3.12 and compares
\* with the member values from 3.12 on; the repository pins no interpreter.
in_EventType(t) ==
    IF t.member THEN {"True"}
    ELSE {"TypeError", IF t.value \in EventType THEN "True" ELSE "False"}

\* What a callback returns when it is called.
ReturnValue(cb) == IF cb = "h1" THEN "r1" ELSE "r2"
Invocation(uscall, v) ==
    [user |-> uscall.user, callback |-> uscall.callback, topic |-> v]
UserCallbacksOf(tbl, user, v) == SelectSeq(tbl[v], LAMBDA uc : uc.user = user)
NSubscriptions(tbl) ==
    LET RECURSIVE Sum(_)
        Sum(vs) == IF vs = {} THEN 0
                   ELSE LET v == CHOOSE x \in vs : TRUE
                        IN Len(tbl[v]) + Sum(vs \ {v})
    IN Sum(DOMAIN tbl)

\* EventBus.subscribe: no check of the topic
subscribe(tbl, user, t, cb) ==
    [tbl EXCEPT ![t.value] = Append(@, [user |-> user, callback |-> cb])]

\* EventBus.publish, `known` being the outcome of `event_type in EventType`
publish(tbl, t, known) ==
    IF known = "TypeError"
    THEN [invoked |-> <<>>, ret |-> "None", raised |-> "TypeError"]
    ELSE IF known = "False"
    THEN [invoked |-> <<>>, ret |-> "False", raised |-> None]
    ELSE [invoked |-> [i \in 1..Len(tbl[t.value]) |->
                          Invocation(tbl[t.value][i], t.value)],
          ret |-> IF Len(tbl[t.value]) > 0 THEN "True" ELSE "False",
          raised |-> None]

\* EventBus.send_event: returns from inside the loop at the first match
send_event(tbl, user, t, known) ==
    LET m == UserCallbacksOf(tbl, user, t.value)
    IN IF known = "TypeError"
       THEN [invoked |-> <<>>, ret |-> "None", raised |-> "TypeError"]
       ELSE IF known = "False" \/ m = <<>>
       THEN [invoked |-> <<>>, ret |-> "None", raised |-> None]
       ELSE [invoked |-> <<Invocation(m[1], t.value)>>,
             ret |-> ReturnValue(m[1].callback), raised |-> None]

\* EventBus.unsubscribe
unsubscribe(tbl, user, t, known) ==
    IF known = "True"
    THEN [tbl EXCEPT ![t.value] = SelectSeq(@, LAMBDA uc : uc.user # user)]
    ELSE tbl

BusCall(op, user, t, cb, before, r) ==
    [op |-> op, user |-> user, topic |-> t, callback |-> cb, before |-> before,
     invoked |-> r.invoked, ret |-> r.ret, raised |-> r.raised]
NothingRun == [invoked |-> <<>>, ret |-> "None", raised |-> None]
panel_vars == <<parent, items, pages, active, current_page_number,
                ctx_active_panel, pressed, key_states, pc, kt, last_render,
                tick_target, raw, oplog>>

InitBus ==
    /\ parent = [p \in {"root"} |-> None]
    /\ items = [p \in Built |-> <<>>]
    /\ pages = [p \in Built |-> _create_pages(p, parent[p], <<>>).pages]
    /\ active = [p \in Built |-> TRUE]
    /\ current_page_number = [p \in Built |-> 0]
    /\ ctx_active_panel = None
    /\ pressed = {}
    /\ key_states = {}
    /\ pc = "idle"
    /\ kt = NoHandoff
    /\ last_render = NoRender
    /\ tick_target = None
    /\ subscribers = [v \in BusTopics |-> <<>>]
    /\ raw = NoRaw
    /\ call = NoCall
    /\ pm = NoPlugins
    /\ ext = NoExternal
    /\ InitIo
    /\ oplog = <<>>
    /\ exc = None

BusSubscribe(user, t, cb) ==
    /\ NSubscriptions(subscribers) < MaxSubscriptions
    /\ subscribers' = subscribe(subscribers, user, t, cb)
    /\ call' = BusCall("subscribe", user, t, cb, subscribers, NothingRun)
    /\ exc' = None
    /\ UNCHANGED <<panel_vars, svc_vars>>

BusPublish(t) ==
    /\ \E known \in in_EventType(t) :
          LET r == publish(subscribers, t, known)
          IN /\ call' = BusCall("publish", None, t, None, subscribers, r)
             /\ exc' = r.raised
    /\ UNCHANGED <<panel_vars, subscribers, svc_vars>>

BusSendEvent(user, t) ==
    /\ \E known \in in_EventType(t) :
          LET r == send_event(subscribers, user, t, known)
          IN /\ call' = BusCall("send_event", user, t, None, subscribers, r)
             /\ exc' = r.raised
    /\ UNCHANGED <<panel_vars, subscribers, svc_vars>>

BusUnsubscribe(user, t) ==
    /\ \E known \in in_EventType(t) :
          /\ subscribers' = unsubscribe(subscribers, user, t, known)
          /\ call' = BusCall("unsubscribe", user, t, None, subscribers,
                             [NothingRun EXCEPT !.raised =
                                 IF known = "TypeError" THEN "TypeError" ELSE None])
          /\ exc' = IF known = "TypeError" THEN "TypeError" ELSE None
    /\ UNCHANGED <<panel_vars, svc_vars>>

NextBus ==
    \/ \E user \in BusUsers, t \in TopicArgs, cb \in Callbacks :
          BusSubscribe(user, t, cb)
    \/ \E t \in TopicArgs : BusPublish(t)
    \/ \E user \in BusUsers, t \in TopicArgs : BusSendEvent(user, t)
    \/ \E user \in BusUsers, t \in TopicArgs : BusUnsubscribe(user, t)

SpecBus == InitBus /\ [][NextBus]_vars

\* ------------------------------------------------------- bus properties
\* The handlers the table held for the topic of the call, as invocations.
SubscribedToTopic ==
    [i \in 1..Len(call.before[call.topic.value]) |->
        Invocation(call.before[call.topic.value][i], call.topic.value)]
CallbacksRun(user) ==
    LET m == SelectSeq(call.invoked, LAMBDA inv : inv.user = user)
    IN [i \in 1..Len(m) |-> m[i].callback]
CallbacksRegistered(user) ==
    LET m == UserCallbacksOf(call.before, user, call.topic.value)
    IN [i \in 1..Len(m) |-> m[i].callback]

\* C11: addressed dispatch determinism. send_event(r, t) invokes only
\* handlers subscribed with recipient r under topic t; publish(t) invokes
\* every handler subscribed to t, whatever its recipient, and no handler
\* subscribed under another topic.
DispatchDeterminism ==
    /\ call.op = "send_event" =>
          \A i \in 1..Len(call.invoked) :
              /\ call.invoked[i].user = call.user
              /\ call.invoked[i].topic = call.topic.value
    /\ call.op = "publish" => call.invoked = SubscribedToTopic

\* C12: registration order. Delivering t to r, by publish(t) or by
\* send_event(r, t), runs the handlers h1..hn subscribed for (r, t), each
\* exactly once, in the order of their registration.
RegistrationOrder ==
    /\ call.op = "publish" =>
          \A r \in BusUsers : CallbacksRun(r) = CallbacksRegistered(r)
    /\ call.op = "send_event" =>
          CallbacksRun(call.user) = CallbacksRegistered(call.user)

\* C13: send_event(r, t) returns what the first handler registered for
\* (r, t) returns; with no handler for (r, t), or a topic that is not a
\* known one, it returns None, invokes nothing and does not raise.
SendEventResult ==
    call.op = "send_event" =>
        /\ call.raised = None
        /\ IF CallbacksRegistered(call.user) # <<>> /\ call.topic.value \in EventType
           THEN call.ret = ReturnValue(CallbacksRegistered(call.user)[1])
           ELSE call.ret = "None" /\ call.invoked = <<>>

\* C14: publish(t) returns True exactly when a handler is subscribed to t
\* at the time of the call; with none subscribed it invokes nothing, changes
\* no subscription, returns False and does not raise.
PublishResult ==
    call.op = "publish" =>
        /\ call.raised = None
        /\ (call.ret = "True") <=> (call.before[call.topic.value] # <<>>)
        /\ call.before[call.topic.value] = <<>> =>
              /\ call.invoked = <<>>
              /\ subscribers = call.before
              /\ call.ret = "False"

\* C15: unsubscribe(r, t) removes every subscription of r on t and nothing
\* else: the other subscriptions on t keep their order, the other topics
\* are untouched, and a call that matches nothing changes nothing.
UnsubscribeFrame ==
    call.op = "unsubscribe" =>
        /\ call.raised = None
        /\ subscribers[call.topic.value] =
              SelectSeq(call.before[call.topic.value],
                        LAMBDA uc : uc.user # call.user)
        /\ \A v \in BusTopics \ {call.topic.value} :
              subscribers[v] = call.before[v]

\* ------------------------------------------- SpecPaging: page navigation
\* Panel.next_page and Panel.previous_page called on a Panel of any size,
\* on any page.
InitPaging ==
    /\ parent = [p \in {"root", "A"} |-> IF p = "root" THEN None ELSE "root"]
    /\ \E a \in 0..MaxChildren :
          items = [p \in {"root", "A"} |->
                      IF p = "root" THEN <<PanelItem("A")>>
                      ELSE ButtonsNamed(p, a)]
    /\ pages = [p \in Built |-> _create_pages(p, parent[p], items[p]).pages]
    /\ active = [p \in Built |-> p = "root"]
    /\ current_page_number = [p \in Built |-> 0]
    /\ ctx_active_panel = None
    /\ pressed = {}
    /\ key_states = {}
    /\ pc = "idle"
    /\ kt = NoHandoff
    /\ last_render = NoRender
    /\ tick_target = None
    /\ subscribers = Subscriptions(Built)
    /\ raw = NoRaw
    /\ call = NoCall
    /\ pm = NoPlugins
    /\ ext = NoExternal
    /\ InitIo
    /\ oplog = <<>>
    /\ exc = None

\* PANEL_NEXT_PAGE to p: Panel.on_panel_next_page -> Panel.next_page
NextPageCall(p) ==
    /\ next_page(p, <<LogEntry("next_page", p, -1, NoItem, "None")>>)
    /\ UNCHANGED <<tree_vars, active, ctx_active_panel, key_vars, thread_vars,
                   tick_target, subscribers, raw, call, svc_vars>>

\* PANEL_PREVIOUS_PAGE to p: Panel.on_panel_previous_page -> previous_page
PreviousPageCall(p) ==
    /\ previous_page(p, <<LogEntry("previous_page", p, -1, NoItem, "None")>>)
    /\ UNCHANGED <<tree_vars, active, ctx_active_panel, key_vars, thread_vars,
                   tick_target, subscribers, raw, call, svc_vars>>

NextPaging ==
    \/ \E p \in Built : NextPageCall(p)
    \/ \E p \in Built : PreviousPageCall(p)

SpecPaging == InitPaging /\ [][NextPaging]_vars

\* the log is: the call, the page-changed event from page old to page new,
\* then a full redraw of page new of p
ChangedAndRendered(log, p, old, new) ==
    LET n == Len(pages[p][new + 1].items)
    IN /\ Len(log) = n + 3
       /\ log[2] = PageChanged(p, old, new)
       /\ log[3].ev = "clear_deck"
       /\ \A i \in 1..n :
            /\ log[3 + i].ev = "render_key"
            /\ log[3 + i].panel = p
            /\ log[3 + i].key = i - 1
            /\ log[3 + i].item = pages[p][new + 1].items[i].item

\* C21: next_page raises current_page_number by exactly 1 and re-renders
\* when there is a next page, and is a no-op (no index change, no
\* page-changed event, no render) on the last page; previous_page lowers it
\* by exactly 1 and re-renders when there is a previous page, and is a
\* no-op on page 0; previous_page right after an effective next_page
\* brings back the index next_page started from.
PageStepping ==
    [][\A p \in Built :
         LET n == current_page_number[p]
         IN /\ NextPageCall(p) =>
                 IF n < Len(pages[p]) - 1
                 THEN /\ current_page_number' =
                            [current_page_number EXCEPT ![p] = n + 1]
                      /\ last_render' = [panel |-> p, page |-> n + 1]
                      /\ ChangedAndRendered(oplog', p, n, n + 1)
                      /\ exc' = None
                 ELSE /\ UNCHANGED <<current_page_number, last_render>>
                      /\ Len(oplog') = 1
                      /\ exc' = None
            /\ PreviousPageCall(p) =>
                 IF n > 0
                 THEN /\ current_page_number' =
                            [current_page_number EXCEPT ![p] = n - 1]
                      /\ last_render' = [panel |-> p, page |-> n - 1]
                      /\ ChangedAndRendered(oplog', p, n, n - 1)
                      /\ exc' = None
                 ELSE /\ UNCHANGED <<current_page_number, last_render>>
                      /\ Len(oplog') = 1
                      /\ exc' = None
            /\ (PreviousPageCall(p) /\ Len(oplog) > 1
                    /\ OpHeader.ev = "next_page" /\ OpHeader.panel = p)
                 => current_page_number'[p] = oplog[2].old]_vars
PageSteppingWitness ==
    /\ Len(oplog) > 1
    /\ OpHeader.ev = "previous_page"
    /\ OpHeader.panel = "A"
    /\ oplog[2] = PageChanged("A", 1, 0)
    /\ current_page_number["A"] = 0
    /\ Len(pages["A"]) = 3
    /\ last_render = [panel |-> "A", page |-> 0]

\* ------------------------- SpecPlugins: PluginManager.discover_and_load
\* Largest number of buttons the mount target holds before the plugins load.
MaxTargetButtons == 29
\* The plugin directories the plugins root may hold.  "ghost" has a
\* manifest whose entry_point names a module that cannot be imported.
PluginDirs == {"obs", "pomodoro", "ghost"}
\* PluginMetadata.from_dict of the manifest of a directory; topics come out
\* of the YAML file as plain str.  The module of ghost cannot be imported;
\* register() of the plugin of crash raises.
Manifest(d) ==
    CASE d = "obs" ->
           [importable |-> TRUE, register_raises |-> FALSE,
            panels |-> <<[name |-> "M", mount |-> "root"]>>,
            events |-> <<[topic |-> "obs.scene.activate", handler |-> "h1"]>>]
      [] d = "pomodoro" ->
           [importable |-> TRUE, register_raises |-> FALSE,
            panels |-> <<[name |-> "N", mount |-> "root"]>>,
            events |-> <<[topic |-> "clock/tick", handler |-> "h2"]>>]
      [] d = "ghost" ->
           [importable |-> FALSE, register_raises |-> FALSE,
            panels |-> <<[name |-> "G", mount |-> "root"]>>,
            events |-> <<[topic |-> "key/changed", handler |-> "h1"]>>]
      [] d = "crash" ->
           [importable |-> TRUE, register_raises |-> TRUE,
            panels |-> <<[name |-> "K", mount |-> "root"]>>,
            events |-> <<[topic |-> "clock/tick", handler |-> "h1"]>>]
HookTopics == {Manifest(d).events[i].topic :
                  d \in PluginDirs, i \in 1..1}
\* sorted(self._plugins_root.iterdir()): any listing without repetition
DirListings ==
    {ds \in UNION {[1..n -> PluginDirs] : n \in 0..Cardinality(PluginDirs)} :
        \A i, j \in DOMAIN ds : i # j => ds[i] # ds[j]}

\* one step of the life cycle of a plugin, as discover_and_load takes it
Step(d, step, arg) == [plugin |-> d, step |-> step, arg |-> arg]

\* the steps of discover_and_load for an importable plugin, in program
\* order: _load_metadata, _instantiate_plugin, _mount_panels,
\* plugin.register, _wire_event_hooks, self._plugins.append
LoadStepsRegisterFirst(d) ==
    LET m == Manifest(d)
    IN <<Step(d, "metadata", None), Step(d, "instantiated", None),
         Step(d, "register", None)>>
         \o [i \in 1..Len(m.panels) |-> Step(d, "mounted", m.panels[i].name)]
         \o [i \in 1..Len(m.events) |-> Step(d, "subscribed", m.events[i].topic)]
         \o <<Step(d, "listed", None)>>
LoadSteps(d) ==
    LET m == Manifest(d)
    IN <<Step(d, "metadata", None), Step(d, "instantiated", None)>>
         \o [i \in 1..Len(m.panels) |-> Step(d, "mounted", m.panels[i].name)]
         \o <<Step(d, "register", None)>>
         \o [i \in 1..Len(m.events) |-> Step(d, "subscribed", m.events[i].topic)]
         \o <<Step(d, "listed", None)>>

\* PluginManager._mount_panels for one panel definition: the panel is
\* constructed (parent = target, active = False; it subscribes its key
\* handlers), added to the target's items, and the target's layout is
\* refreshed.
mount(name, target) ==
    LET built == Built \cup {name}
        own == ButtonsNamed(name, 1)
        its == [p \in built |->
                   IF p = name THEN own
                   ELSE IF p = target THEN Append(items[p], PanelItem(name))
                   ELSE items[p]]
        r == _create_pages(target, parent[target], its[target])
    IN /\ parent' = [p \in built |-> IF p = name THEN target ELSE parent[p]]
       /\ items' = its
       /\ pages' = [p \in built |->
                       IF p = name THEN _create_pages(name, target, own).pages
                       ELSE IF p = target /\ ~r.raised THEN r.pages
                       ELSE pages[p]]
       /\ active' = [p \in built |-> IF p = name THEN FALSE ELSE active[p]]
       /\ current_page_number' =
             [p \in built |-> IF p = name THEN 0 ELSE current_page_number[p]]

\* the subscriptions after the panel `name` was constructed and the hooks
\* of d were wired: _wire_event_hooks subscribes (plugin, hook.topic, handler)
MountedSubscribers(name) ==
    [t \in DOMAIN subscribers |->
        IF t = "key/pressed"
        THEN Append(subscribers[t], [user |-> name, callback |-> "on_key_pressed"])
        ELSE IF t = "key/released"
        THEN Append(subscribers[t], [user |-> name, callback |-> "on_key_released"])
        ELSE subscribers[t]]
WiredSubscribers(d, name) ==
    LET m == Manifest(d)
    IN subscribe(MountedSubscribers(name), d,
                 [value |-> m.events[1].topic, member |-> FALSE],
                 m.events[1].handler)

\* `except Exception as exc:` in the loop of discover_and_load: the failure
\* of one directory is logged and the loop goes on with the next one
load_failed_abort(d, e) ==
    /\ pm' = [pm EXCEPT !.log = @ \o <<Step(d, "metadata", None),
                                       Step(d, "failed", e)>>,
                        !.returned = TRUE]
    /\ exc' = e
load_failed(d, e) ==
    /\ pm' = [pm EXCEPT !.log = @ \o <<Step(d, "metadata", None),
                                       Step(d, "failed", e)>>,
                        !.idx = @ + 1]
    /\ exc' = None

InitPlugins ==
    /\ parent = [p \in {"root"} |-> None]
    /\ \E a \in 0..MaxTargetButtons :
          items = [p \in {"root"} |-> ButtonsNamed(p, a)]
    /\ pages = [p \in Built |-> _create_pages(p, parent[p], items[p]).pages]
    /\ active = [p \in Built |-> TRUE]
    /\ current_page_number = [p \in Built |-> 0]
    /\ ctx_active_panel = None
    /\ pressed = {}
    /\ key_states = {}
    /\ pc = "idle"
    /\ kt = NoHandoff
    /\ last_render = NoRender
    /\ tick_target = None
    /\ subscribers = [t \in KeyTopics \cup HookTopics |->
                         IF t \in KeyTopics THEN Subscriptions(Built)[t] ELSE <<>>]
    /\ raw = NoRaw
    /\ call = NoCall
    /\ \E ds \in DirListings : pm = [NoPlugins EXCEPT !.dirs = ds]
    /\ ext = NoExternal
    /\ InitIo
    /\ oplog = <<>>
    /\ exc = None

\* One turn of the loop of discover_and_load, on the directory pm.idx.
LoadPlugin ==
    /\ ~pm.returned
    /\ pm.idx <= Len(pm.dirs)
    /\ LET d == pm.dirs[pm.idx]
           m == Manifest(d)
       IN IF ~m.importable
          THEN /\ load_failed(d, "ImportError")
               /\ UNCHANGED <<tree_vars, active, current_page_number, subscribers>>
          ELSE IF m.register_raises
          THEN /\ mount(m.panels[1].name, m.panels[1].mount)
               /\ subscribers' = MountedSubscribers(m.panels[1].name)
               /\ pm' = [pm EXCEPT !.log = @ \o
                            <<Step(d, "metadata", None), Step(d, "instantiated", None),
                              Step(d, "mounted", m.panels[1].name),
                              Step(d, "failed", "RuntimeError")>>,
                                   !.idx = @ + 1]
               /\ exc' = None
          ELSE /\ mount(m.panels[1].name, m.panels[1].mount)
               /\ subscribers' = WiredSubscribers(d, m.panels[1].name)
               /\ pm' = [pm EXCEPT !.log = @ \o LoadSteps(d),
                                   !.plugins = Append(@, d),
                                   !.idx = @ + 1]
               /\ exc' = None
    /\ UNCHANGED <<ctx_active_panel, last_render, key_vars, thread_vars,
                   tick_target, raw, call, oplog, ext, io_vars>>

\* discover_and_load returns when the listing is exhausted
LoadReturn ==
    /\ ~pm.returned
    /\ pm.idx > Len(pm.dirs)
    /\ pm' = [pm EXCEPT !.returned = TRUE]
    /\ UNCHANGED <<tree_vars, nav_vars, key_vars, thread_vars, tick_target,
                   subscribers, raw, call, oplog, exc, ext, io_vars>>

\* The topic arguments of the calls that reach the hooks: the plain str of
\* the manifest, or the EventType member of the same value when there is one.
HookTopicArgs ==
    {[value |-> v, member |-> FALSE] : v \in HookTopics}
        \cup {[value |-> v, member |-> TRUE] : v \in HookTopics \cap EventType}

\* event_bus.publish(t, data) by the program or by a plugin, after the
\* plugins were loaded
HookPublish(t) ==
    /\ pm.returned
    /\ \E known \in in_EventType(t) :
          LET r == publish(subscribers, t, known)
          IN /\ call' = BusCall("publish", None, t, None, subscribers, r)
             /\ exc' = r.raised
    /\ UNCHANGED <<panel_vars, subscribers, svc_vars>>

\* event_bus.send_event(plugin, t, data), after the plugins were loaded
HookSendEvent(d, t) ==
    /\ pm.returned
    /\ \E known \in in_EventType(t) :
          LET r == send_event(subscribers, d, t, known)
          IN /\ call' = BusCall("send_event", d, t, None, subscribers, r)
             /\ exc' = r.raised
    /\ UNCHANGED <<panel_vars, subscribers, svc_vars>>

NextPlugins ==
    \/ LoadPlugin
    \/ LoadReturn
    \/ \E t \in HookTopicArgs : HookPublish(t)
    \/ \E d \in PluginDirs, t \in HookTopicArgs : HookSendEvent(d, t)

SpecPlugins == InitPlugins /\ [][NextPlugins]_vars

\* ------------------------------------------------- plugin properties
Loaded == {pm.plugins[i] : i \in 1..Len(pm.plugins)}
Listed == {pm.dirs[i] : i \in 1..Len(pm.dirs)}
StepsOf(d, step) == {i \in 1..Len(pm.log) : pm.log[i].plugin = d /\ pm.log[i].step = step}
IsWired(d) ==
    \A i \in 1..Len(Manifest(d).events) :
        \E j \in 1..Len(subscribers[Manifest(d).events[i].topic]) :
            subscribers[Manifest(d).events[i].topic][j] =
                [user |-> d, callback |-> Manifest(d).events[i].handler]
IsMounted(d) ==
    \A i \in 1..Len(Manifest(d).panels) :
        LET pn == Manifest(d).panels[i]
        IN /\ pn.name \in Built
           /\ parent[pn.name] = pn.mount
           /\ OccInItems(pn.mount, PanelItem(pn.name)) = 1

\* C22: plugin isolation. The turn of discover_and_load on a directory
\* whose entry_point module cannot be imported leaves the panel tree, the
\* subscriptions and the list of plugins as they were and raises nothing,
\* and when discover_and_load returns every valid plugin of the listing is
\* mounted, registered, wired and listed, whatever the order of the listing.
PluginIsolation ==
    /\ [][(LoadPlugin /\ ~Manifest(pm.dirs[pm.idx]).importable)
            => /\ UNCHANGED <<tree_vars, active, current_page_number, subscribers>>
               /\ pm'.plugins = pm.plugins
               /\ ~pm'.returned
               /\ exc' = None]_vars
    /\ [][LoadReturn => exc' = None]_vars
    /\ [](pm.returned =>
            /\ Loaded = {d \in Listed : Manifest(d).importable}
            /\ \A d \in Loaded :
                  IsMounted(d) /\ IsWired(d) /\ StepsOf(d, "register") # {})
PluginIsolationWitness ==
    /\ pm.returned
    /\ pm.dirs = <<"obs", "ghost", "pomodoro">>
    /\ pm.plugins = <<"obs", "pomodoro">>
    /\ IsMounted("pomodoro") /\ IsWired("pomodoro")
    /\ "G" \notin Built
    /\ exc = None

HooksOnTopic ==
    {<<d, i>> \in Loaded \X {1} :
        Manifest(d).events[i].topic = call.topic.value}

\* C24: hook delivery. After a plugin loaded with a hook (t, h), whatever
\* the topic string t, every later publish(t, data) invokes the plugin's
\* h, and send_event(plugin, t, data) invokes it and returns its result.
HookDelivery ==
    (call.op \in {"publish", "send_event"}) =>
        \A x \in HooksOnTopic :
            LET d == x[1]
                h == Manifest(d).events[x[2]].handler
                inv == Invocation([user |-> d, callback |-> h], call.topic.value)
            IN /\ call.op = "publish" =>
                    \E i \in 1..Len(call.invoked) : call.invoked[i] = inv
               /\ (call.op = "send_event" /\ call.user = d) =>
                    /\ call.invoked = <<inv>>
                    /\ call.ret = ReturnValue(h)

\* C25: after discover_and_load mounted a plugin panel into its target, the
\* pages of the target are those of its present children and the mounted
\* panel occupies exactly one slot of exactly one page, however many
\* children the target had.
MountedOnOnePage ==
    \A d \in Loaded :
        \A i \in 1..Len(Manifest(d).panels) :
            LET pn == Manifest(d).panels[i]
            IN /\ pages[pn.mount] =
                     _create_pages(pn.mount, parent[pn.mount], items[pn.mount]).pages
               /\ OccOnPages(pn.mount, PanelItem(pn.name)) = 1

\* --------------------------------- external command messages (pure part)
\* A JSON value as json.loads gives it.  A float is held in tenths.
IntV(n) == [ty |-> "int", i |-> n]
FloatV(tenths) == [ty |-> "float", f |-> tenths]
StrV(str) == [ty |-> "str", s |-> str]
BoolV(b) == [ty |-> "bool", b |-> b]
NoneV == [ty |-> "None"]
\* a key that a dict does not hold
Absent == [ty |-> "absent"]
\* a conversion that raised
Raised(e) == [ty |-> "raised", e |-> e]
IsRaised(x) == x.ty = "raised"

\* The fields of the messages; "note" stands for any field no message
\* type defines.
Fields == {"message_type", "message", "echo", "key", "duration", "success",
           "error", "note"}
EmptyDict == [f \in Fields |-> Absent]

Digit(d) == CASE d = 0 -> "0" [] d = 1 -> "1" [] d = 2 -> "2" [] d = 3 -> "3"
              [] d = 4 -> "4" [] d = 5 -> "5" [] d = 6 -> "6" [] d = 7 -> "7"
              [] d = 8 -> "8" [] d = 9 -> "9"
RECURSIVE NatStr(_)
NatStr(n) == IF n < 10 THEN Digit(n) ELSE NatStr(n \div 10) \o Digit(n % 10)
Abs(n) == IF n < 0 THEN 0 - n ELSE n
Sign(n) == IF n < 0 THEN "-" ELSE ""
\* the int a str denotes, for the strs of the model
StrToInt(str) ==
    IF \E n \in 0..99 : NatStr(n) = str
    THEN IntV(CHOOSE n \in 0..99 : NatStr(n) = str)
    ELSE Raised("ValueError")

\* int(x)
py_int(x) ==
    CASE x.ty = "int" -> x
      [] x.ty = "float" -> IntV(IF x.f < 0 THEN 0 - (Abs(x.f) \div 10) ELSE x.f \div 10)
      [] x.ty = "bool" -> IntV(IF x.b THEN 1 ELSE 0)
      [] x.ty = "str" -> StrToInt(x.s)
      [] OTHER -> Raised("TypeError")
\* float(x)
py_float(x) ==
    CASE x.ty = "int" -> FloatV(x.i * 10)
      [] x.ty = "float" -> x
      [] x.ty = "bool" -> FloatV(IF x.b THEN 10 ELSE 0)
      [] x.ty = "str" -> IF IsRaised(StrToInt(x.s)) THEN Raised("ValueError")
                         ELSE FloatV(StrToInt(x.s).i * 10)
      [] OTHER -> Raised("TypeError")
\* str(x)
py_str(x) ==
    CASE x.ty = "str" -> x
      [] x.ty = "int" -> StrV(Sign(x.i) \o NatStr(Abs(x.i)))
      [] x.ty = "float" -> StrV(Sign(x.f) \o NatStr(Abs(x.f) \div 10) \o "."
                                \o Digit(Abs(x.f) % 10))
      [] x.ty = "bool" -> StrV(IF x.b THEN "True" ELSE "False")
      [] OTHER -> StrV("None")
\* bool(x): the truth value of x
py_bool(x) ==
    CASE x.ty = "bool" -> x
      [] x.ty = "int" -> BoolV(x.i # 0)
      [] x.ty = "float" -> BoolV(x.f # 0)
      [] x.ty = "str" -> BoolV(x.s # "")
      [] OTHER -> BoolV(FALSE)
\* x == y: numbers and bools compare by value
Num(x) == CASE x.ty = "int" -> x.i * 10
            [] x.ty = "float" -> x.f
            [] x.ty = "bool" -> IF x.b THEN 10 ELSE 0
py_eq(x, y) ==
    IF x.ty \in {"int", "float", "bool"} /\ y.ty \in {"int", "float", "bool"}
    THEN Num(x) = Num(y)
    ELSE x = y
\* dict equality: the same keys, equal values
dict_eq(a, b) ==
    \A f \in Fields : IF a[f] = Absent \/ b[f] = Absent THEN a[f] = b[f]
                      ELSE py_eq(a[f], b[f])
\* raw.get(f, default)
dict_get(rawd, f, default) == IF rawd[f] = Absent THEN default ELSE rawd[f]

\* ExternalMessageType
ECHO == 1
PONG == 2
PUSH == 3
PUSH_ACK == 4
ExternalMessageType == {ECHO, PONG, PUSH, PUSH_ACK}

\* ExternalCommandMessage and its subclasses: the class, message_type,
\* payload, and the exception the constructor raised
Message(cls, mt, payload) ==
    [cls |-> cls, message_type |-> mt, payload |-> payload, raised |-> None]
Failed(e) ==
    [cls |-> None, message_type |-> 0, payload |-> EmptyDict, raised |-> e]
EchoCommand(message) ==
    Message("EchoCommand", ECHO, [EmptyDict EXCEPT !["message"] = message])
PongResponse(reply, echo) ==
    Message("PongResponse", PONG,
            [EmptyDict EXCEPT !["message"] = reply,
                              !["echo"] = IF echo = NoneV THEN Absent ELSE echo])
PushCommand(key, duration) ==
    IF Num(key) < 0 THEN Failed("ValueError")
    ELSE IF Num(duration) <= 0 THEN Failed("ValueError")
    ELSE Message("PushCommand", PUSH,
                 [EmptyDict EXCEPT !["key"] = py_int(key),
                                   !["duration"] = py_float(duration)])
PushAckResponse(key, duration, success, error) ==
    Message("PushAckResponse", PUSH_ACK,
            [EmptyDict EXCEPT !["key"] = key,
                              !["duration"] = duration,
                              !["success"] = success,
                              !["error"] = IF py_bool(error).b THEN error ELSE Absent])

\* ExternalCommandMessage.to_dict
to_dict(m) == [m.payload EXCEPT !["message_type"] = IntV(m.message_type)]

\* the `except ValueError:` of parse_external_command: a message_type that
\* ExternalMessageType does not define is kept, with the other fields as
\* the payload
opaque_rejected(message_type_value, rawd) == Failed("ValueError")
opaque(message_type_value, rawd) ==
    Message("ExternalCommandMessage", message_type_value,
            [rawd EXCEPT !["message_type"] = Absent])

\* parse_external_command
parse_external_command(rawd) ==
    IF rawd["message_type"] = Absent THEN Failed("ValueError")
    ELSE IF IsRaised(py_int(rawd["message_type"]))
    THEN Failed(py_int(rawd["message_type"]).e)
    ELSE LET message_type_value == py_int(rawd["message_type"]).i
         IN IF message_type_value \notin ExternalMessageType
            THEN opaque(message_type_value, rawd)
            ELSE IF message_type_value = ECHO
            THEN EchoCommand(py_str(dict_get(rawd, "message", StrV(""))))
            ELSE IF message_type_value = PONG
            THEN PongResponse(py_str(dict_get(rawd, "message", StrV("PONG"))),
                              dict_get(rawd, "echo", NoneV))
            ELSE IF message_type_value = PUSH
            THEN IF rawd["key"] = Absent THEN Failed("ValueError")
                 ELSE IF IsRaised(py_float(dict_get(rawd, "duration", FloatV(20))))
                 THEN Failed(py_float(dict_get(rawd, "duration", FloatV(20))).e)
                 ELSE IF IsRaised(py_int(rawd["key"]))
                 THEN Failed(py_int(rawd["key"]).e)
                 ELSE PushCommand(py_int(rawd["key"]),
                                  py_float(dict_get(rawd, "duration", FloatV(20))))
            ELSE LET k == py_int(dict_get(rawd, "key", IntV(-1)))
                     du == py_float(dict_get(rawd, "duration", IntV(0)))
                 IN IF IsRaised(k) THEN Failed(k.e)
                    ELSE IF IsRaised(du) THEN Failed(du.e)
                    ELSE PushAckResponse(k, du,
                             py_bool(dict_get(rawd, "success", BoolV(FALSE))),
                             dict_get(rawd, "error", NoneV))

\* ------------------------------ SpecExternal: the external command listener
\* Largest number of connections the listener serves.
MaxConnections == 2
\* deck.key_count() of the 15-key device
key_count == cols * rows

\* The messages clients send, as json.loads gives them: PUSH requests with
\* and without key and duration, an ECHO, and a message of a type that
\* ExternalMessageType does not define.
PushKeysSent == {IntV(-1), IntV(3), IntV(key_count - 1), IntV(key_count), Absent}
DurationsSent == {FloatV(2), FloatV(0), Absent}
RawRequests ==
    {[EmptyDict EXCEPT !["message_type"] = IntV(PUSH), !["key"] = k,
                       !["duration"] = du] :
        k \in PushKeysSent, du \in DurationsSent}
    \cup {[EmptyDict EXCEPT !["message_type"] = IntV(ECHO),
                            !["message"] = StrV("PING")],
          [EmptyDict EXCEPT !["message_type"] = IntV(9),
                            !["note"] = StrV("x")]}

\* no message: _build_external_response returned None, or nothing was built
NoMessage == Message(None, 0, EmptyDict)

\* DeckManager._handle_push_command
key_out_of_range(key) == key >= key_count
_handle_push_command(command) ==
    IF ~ext.deck
    THEN [success |-> FALSE, error |-> StrV("Stream Deck not initialized")]
    ELSE IF key_out_of_range(command.payload["key"].i)
    THEN [success |-> FALSE, error |-> StrV("Key out of range")]
    ELSE [success |-> TRUE, error |-> NoneV]

\* DeckManager._build_external_response
_build_external_response(message) ==
    IF message.cls = "EchoCommand"
    THEN PongResponse(StrV("PONG"), dict_get(message.payload, "message", NoneV))
    ELSE IF message.cls = "PushCommand"
    THEN LET r == _handle_push_command(message)
         IN PushAckResponse(message.payload["key"], message.payload["duration"],
                            BoolV(r.success), r.error)
    ELSE NoMessage

\* DeckManager._simulate_key_press: the states it reports, in order
simulated_states_swapped == <<FALSE, TRUE>>
simulated_states == <<TRUE, FALSE>>

InitExternal ==
    /\ parent = [p \in {"root"} |-> None]
    /\ items = [p \in Built |-> <<>>]
    /\ pages = [p \in Built |-> _create_pages(p, parent[p], <<>>).pages]
    /\ active = [p \in Built |-> TRUE]
    /\ current_page_number = [p \in Built |-> 0]
    /\ ctx_active_panel = None
    /\ pressed = {}
    /\ key_states = {}
    /\ pc = "idle"
    /\ kt = NoHandoff
    /\ last_render = NoRender
    /\ tick_target = None
    /\ subscribers = Subscriptions(Built)
    /\ raw = NoRaw
    /\ call = NoCall
    /\ pm = NoPlugins
    /\ \E d \in BOOLEAN : ext = [NoExternal EXCEPT !.deck = d]
    /\ InitIo
    /\ oplog = <<>>
    /\ exc = None

\* DeckManager._handle_external_client on one connection whose line is the
\* JSON text of rawd: ExternalCommandMessage.from_dict, then
\* _build_external_response, then the response is sent.  A ValueError of
\* from_dict is logged and the connection closed without a response.
HandleExternalClient(rawd) ==
    /\ Len(ext.conns) < MaxConnections
    /\ LET message == parse_external_command(rawd)
           response == IF message.raised # None THEN NoMessage
                       ELSE _build_external_response(message)
           accepted == /\ message.raised = None
                       /\ message.cls = "PushCommand"
                       /\ _handle_push_command(message).success
       IN /\ ext' = [ext EXCEPT
                       !.conns = Append(@, [rawd |-> rawd, response |-> response,
                                            raised |-> message.raised]),
                       !.sims = IF accepted
                                THEN Append(@, [conn |-> Len(ext.conns) + 1,
                                                key |-> message.payload["key"].i,
                                                phase |-> 1])
                                ELSE @]
          /\ exc' = IF message.raised = "ValueError" THEN None ELSE message.raised
    /\ UNCHANGED <<panel_vars, subscribers, call, pm, io_vars>>

\* The thread of _simulate_key_press takes its next step:
\* _key_change_callback(deck, key, state) publishes KEY_CHANGED.
SimulateKeyStep(i) ==
    /\ i \in 1..Len(ext.sims)
    /\ ext.sims[i].phase <= Len(simulated_states)
    /\ LET sim == ext.sims[i]
           state == simulated_states[sim.phase]
       IN /\ ext' = [ext EXCEPT
                       !.sims[i].phase = @ + 1,
                       !.events = Append(@, [conn |-> sim.conn, key |-> sim.key,
                                             state |-> state])]
          /\ raw' = [key |-> sim.key, state |-> state,
                     handled |-> Len(subscribers["key/changed"])]
    /\ exc' = None
    /\ UNCHANGED <<tree_vars, nav_vars, key_vars, thread_vars, tick_target,
                   oplog, subscribers, call, pm, io_vars>>

NextExternal ==
    \/ \E rawd \in RawRequests : HandleExternalClient(rawd)
    \/ \E i \in 1..MaxConnections : SimulateKeyStep(i)

SpecExternal == InitExternal /\ [][NextExternal]_vars

\* ------------------------------------------- external command properties
\* the notifications raised for the request of connection c, in order
EventsOf(c) ==
    LET ev == SelectSeq(ext.events, LAMBDA e : e.conn = c)
    IN [i \in 1..Len(ev) |-> <<ev[i].key, ev[i].state>>]
IsPrefix(a, b) == Len(a) <= Len(b) /\ \A i \in 1..Len(a) : a[i] = b[i]
SimFinished(c) ==
    \E i \in 1..Len(ext.sims) :
        ext.sims[i].conn = c /\ ext.sims[i].phase > Len(simulated_states)
\* the request is a PUSH (message_type 3)
IsPush(rawd) == rawd["message_type"] = IntV(PUSH)
IsValidKey(x) == x.ty = "int" /\ 0 <= x.i /\ x.i < key_count
HasDuration(rawd) ==
    rawd["duration"] = Absent \/ Num(rawd["duration"]) > 0

\* C26: external PUSH success. A PUSH with 0 <= key < key_count and
\* duration > 0 on an initialized device is answered with a PUSH_ACK
\* carrying success=true, and one press notification then one release
\* notification for that key, and no other, are raised for it.
PushSuccess ==
    \A c \in 1..Len(ext.conns) :
        LET rq == ext.conns[c]
        IN (IsPush(rq.rawd) /\ IsValidKey(rq.rawd["key"]) /\ HasDuration(rq.rawd)
                /\ ext.deck)
            => /\ rq.response.cls = "PushAckResponse"
               /\ rq.response.payload["success"] = BoolV(TRUE)
               /\ rq.response.payload["error"] = Absent
               /\ IsPrefix(EventsOf(c), <<<<rq.rawd["key"].i, TRUE>>,
                                          <<rq.rawd["key"].i, FALSE>>>>)
               /\ SimFinished(c) => Len(EventsOf(c)) = 2
PushSuccessWitness ==
    /\ Len(ext.conns) = 2
    /\ ext.conns[2].rawd["key"] = IntV(3)
    /\ ext.conns[2].rawd["duration"] = FloatV(2)
    /\ ext.conns[2].response.payload["success"] = BoolV(TRUE)
    /\ SimFinished(2)
    /\ EventsOf(2) = <<<<3, TRUE>>, <<3, FALSE>>>>

\* C27: external PUSH failure. Every PUSH whose key is not a valid key
\* index of the device, or that arrives while no device is initialized,
\* is answered with a PUSH_ACK carrying success=false and an error reason,
\* and no press or release notification is raised for it.
PushFailure ==
    \A c \in 1..Len(ext.conns) :
        LET rq == ext.conns[c]
        IN (IsPush(rq.rawd) /\ (~IsValidKey(rq.rawd["key"]) \/ ~ext.deck))
            => /\ rq.response.cls = "PushAckResponse"
               /\ rq.response.payload["success"] = BoolV(FALSE)
               /\ rq.response.payload["error"] # Absent
               /\ EventsOf(c) = <<>>

\* ------------------------------------ SpecParse: parse_external_command
\* The messages of the defined types, as their constructors build them.
ClientMessages ==
    {EchoCommand(StrV(x)) : x \in {"PING", ""}}
    \cup {PongResponse(StrV("PONG"), e) : e \in {NoneV, StrV("PING")}}
    \cup {PushCommand(IntV(k), FloatV(du)) :
             k \in {0, 3, key_count}, du \in {2, 20}}
    \cup {PushAckResponse(IntV(k), du, BoolV(ok), er) :
             k \in {3, key_count}, du \in {FloatV(2), IntV(2)},
             ok \in BOOLEAN, er \in {NoneV, StrV(""), StrV("Key out of range")}}
\* Raw dicts whose message_type is no defined type, or not a number
OtherTypesSent == {IntV(0), IntV(5), IntV(7), IntV(9), IntV(-1), StrV("9"), FloatV(95),
                   StrV("x"), NoneV, Absent}
OtherRaws ==
    {[EmptyDict EXCEPT !["message_type"] = t, !["note"] = n, !["key"] = k] :
        t \in OtherTypesSent,
        n \in {Absent, StrV("x"), IntV(1)},
        k \in {Absent, IntV(-1), StrV("x")}}
ParseInputs == {to_dict(m) : m \in ClientMessages} \cup OtherRaws

InitParse ==
    /\ parent = [p \in {"root"} |-> None]
    /\ items = [p \in Built |-> <<>>]
    /\ pages = [p \in Built |-> _create_pages(p, parent[p], <<>>).pages]
    /\ active = [p \in Built |-> TRUE]
    /\ current_page_number = [p \in Built |-> 0]
    /\ ctx_active_panel = None
    /\ pressed = {}
    /\ key_states = {}
    /\ pc = "idle"
    /\ kt = NoHandoff
    /\ last_render = NoRender
    /\ tick_target = None
    /\ subscribers = Subscriptions(Built)
    /\ raw = NoRaw
    /\ call = NoCall
    /\ pm = NoPlugins
    /\ ext = NoExternal
    /\ InitIo
    /\ oplog = <<>>
    /\ exc = None

\* ExternalCommandMessage.from_dict(rawd)
ParseMessage(rawd) ==
    /\ LET message == parse_external_command(rawd)
       IN /\ ext' = [ext EXCEPT !.parsed = <<rawd, message>>]
          /\ exc' = message.raised
    /\ UNCHANGED <<panel_vars, subscribers, call, pm, io_vars>>

NextParse == \E rawd \in ParseInputs : ParseMessage(rawd)

SpecParse == InitParse /\ [][NextParse]_vars

\* C28: parse_external_command rejects no message because its
\* message_type is not one of the defined values: it returns a message
\* with the same integer message_type whose payload is the raw fields
\* without message_type.  For a message m of a defined type,
\* parse_external_command(m.to_dict()) has the message_type and the
\* payload of m.
ParsePreserves ==
    ext.parsed # <<>> =>
        LET rawd == ext.parsed[1]
            message == ext.parsed[2]
        IN /\ (rawd["message_type"].ty \in {"int", "float", "bool"}
                  /\ py_int(rawd["message_type"]).i \notin ExternalMessageType)
                => /\ message.raised = None
                   /\ message.message_type = py_int(rawd["message_type"]).i
                   /\ message.payload = [rawd EXCEPT !["message_type"] = Absent]
           /\ \A m \in ClientMessages :
                rawd = to_dict(m)
                    => /\ message.raised = None
                       /\ message.message_type = m.message_type
                       /\ dict_eq(message.payload, m.payload)
ParsePreservesWitness ==
    /\ ext.parsed # <<>>
    /\ ext.parsed[1]["message_type"] = IntV(9)
    /\ ext.parsed[1]["note"] = StrV("x")
    /\ ext.parsed[2].message_type = 9
    /\ ext.parsed[2].payload["note"] = StrV("x")
    /\ ext.parsed[2].raised = None

\* ------------------------------------------- SpecTick: the visible tick
\* The visible ticks sent in one run.
MaxTicks == 2
\* The keys worked while the tick thread runs: the slot of the sub-panel
\* (of the Parent button, once inside it) and the slot next to it.
TickKeys == {0, 1}

\* Panel.on_periodic_tick: CLOCK_TICK goes on to every Item of
\* self.pages[self.current_page_number] that is a Button.
on_periodic_tick(p) ==
    IF page_index_raises(p) THEN {}
    ELSE {current_page(p).items[i].item : i \in
             {j \in 1..n_items(current_page(p)) :
                 IsButton(current_page(p).items[j].item)}}

\* EventBus.send_event(user, CLOCK_TICK, data): the callback of the first
\* subscription whose user == user runs.  Every Item subscribes its
\* on_periodic_tick in Item.__init__; no subscription has user None.
send_clock_tick(user) == IF user \in Built THEN on_periodic_tick(user) ELSE {}

\* PanelRegistry has built root holding the sub-panel A and one button,
\* and A holding a buttons.  Panel.__init__ stores `active` in self._active;
\* Context.set_active_panel has not been called.
InitTick ==
    /\ parent = [p \in {"root", "A"} |-> IF p = "root" THEN None ELSE "root"]
    /\ \E a \in {1, capacity} :
          items = [p \in {"root", "A"} |->
                      IF p = "root" THEN <<PanelItem("A"), Button("root", 1)>>
                      ELSE ButtonsNamed(p, a)]
    /\ pages = [p \in Built |-> _create_pages(p, parent[p], items[p]).pages]
    /\ active = [p \in Built |-> p = "root"]
    /\ current_page_number = [p \in Built |-> 0]
    /\ ctx_active_panel = None
    /\ pressed = {}
    /\ key_states = {}
    /\ pc = "idle"
    /\ kt = NoHandoff
    /\ last_render = NoRender
    /\ tick_target = None
    /\ subscribers = Subscriptions(Built)
    /\ raw = NoRaw
    /\ call = NoCall
    /\ pm = NoPlugins
    /\ ext = NoExternal
    /\ InitIo
    /\ oplog = <<>>
    /\ exc = None

\* One pass of the loop of DeckManager._send_periodic_event:
\* send_event(context.active_panel, CLOCK_TICK, data=(time_i, time_count)),
\* then time_i += 1.  call keeps the recipient, the Items the tick went on
\* to and time_i.
SendPeriodicEvent ==
    LET time_i == IF call.op = "clock/tick" THEN call.time_i + 1 ELSE 0
        user == ctx_active_panel
    IN /\ time_i < MaxTicks
       /\ call' = [op |-> "clock/tick", user |-> user, time_i |-> time_i,
                   delivered |-> send_clock_tick(user)]
       /\ tick_target' = user
       /\ exc' = IF user # None /\ page_index_raises(user)
                 THEN "IndexError" ELSE None
       /\ UNCHANGED <<tree_vars, nav_vars, key_vars, thread_vars, subscribers,
                      raw, oplog, svc_vars>>

NextTick ==
    \/ \E k \in TickKeys : OnKeyPressed(k)
    \/ \E k \in TickKeys : OnKeyReleased(k)
    \/ \E p \in Built : GoToParent(p)
    \/ HandoffComplete
    \/ SendPeriodicEvent

SpecTick == InitTick /\ [][NextTick]_vars

\* The Button Items on the page a Panel shows.
ButtonsOnCurrentPage(p) ==
    {current_page(p).items[i].item : i \in
        {j \in 1..n_items(current_page(p)) :
            IsButton(current_page(p).items[j].item)}}

\* C29: visible tick delivery. From startup on, before the first
\* navigation included, every visible tick goes to the Items on the
\* current page of a Panel that is active when the tick is sent, and to no
\* other Item.  (The Items are taken to be the Buttons of the page, the
\* only ones Panel.on_periodic_tick forwards to.)
TickDelivery ==
    [][(call'.op = "clock/tick" /\ call' # call)
        => \E p \in ActivePanels :
              call'.delivered = ButtonsOnCurrentPage(p)]_vars

\* --------------------------------------------- SpecStart: cli.start
\* cli.start runs its calls one after the other: discover_and_load,
\* init_deck, main.  A call is reached when the calls before it are over.
start_reached_unordered(step) == TRUE
start_reached(step) ==
    CASE step = "init_deck" -> pm.returned
      [] step = "main" -> pm.returned /\ ext.deck
      [] OTHER -> FALSE

\* PanelRegistry has built root with one button, the plugin directories
\* are listed, and DeckManager() has no device yet (self._deck = None).
InitStart ==
    /\ parent = [p \in {"root"} |-> None]
    /\ items = [p \in {"root"} |-> ButtonsNamed(p, 1)]
    /\ pages = [p \in Built |-> _create_pages(p, parent[p], items[p]).pages]
    /\ active = [p \in Built |-> TRUE]
    /\ current_page_number = [p \in Built |-> 0]
    /\ ctx_active_panel = None
    /\ pressed = {}
    /\ key_states = {}
    /\ pc = "idle"
    /\ kt = NoHandoff
    /\ last_render = NoRender
    /\ tick_target = None
    /\ subscribers = [t \in KeyTopics \cup HookTopics |->
                         IF t \in KeyTopics THEN Subscriptions(Built)[t] ELSE <<>>]
    /\ raw = NoRaw
    /\ call = NoCall
    /\ \E ds \in DirListings : pm = [NoPlugins EXCEPT !.dirs = ds]
    /\ ext = [NoExternal EXCEPT !.deck = FALSE]
    /\ InitIo
    /\ oplog = <<>>
    /\ exc = None

\* DeckManager.init_deck: the device is selected (self._deck, _initialized),
\* or RuntimeError("No matching StreamDeck found!") ends start.
InitDeck(found) ==
    /\ start_reached("init_deck")
    /\ ~ext.deck
    /\ exc # "RuntimeError"
    /\ ext' = [ext EXCEPT !.deck = found]
    /\ exc' = IF found THEN None ELSE "RuntimeError"
    /\ UNCHANGED <<panel_vars, subscribers, call, pm, io_vars>>

\* DeckManager.main up to its joins: the device is opened, INITIALIZED is
\* published, set_key_callback(self._key_change_callback), the two tick
\* threads and the external command listener are started.  Without a
\* device self.deck.is_visual() raises AttributeError.
Main ==
    /\ start_reached("main")
    /\ ~pm.started
    /\ pm' = [pm EXCEPT !.started = ext.deck]
    /\ exc' = IF ext.deck THEN None ELSE "AttributeError"
    /\ UNCHANGED <<panel_vars, subscribers, call, ext, io_vars>>

\* The device calls the callback main has set.
DeviceKeyEvent(k, state) ==
    /\ pm.started
    /\ KeyChangeCallback(k, state)

\* The thread of _send_periodic_event, started by main.
PeriodicThread ==
    /\ pm.started
    /\ SendPeriodicEvent

\* The thread of _send_hidden_periodic_event, started by main:
\* event_bus.publish(EventType.INTERNAL_CLOCK_TICK, ...) looks up a member
\* EventType does not have; the AttributeError ends the thread and nothing
\* is published.
HiddenPeriodicThread ==
    /\ pm.started
    /\ oplog' = <<LogEntry("internal_clock_tick", None, -1, NoItem, "None")>>
    /\ exc' = "AttributeError"
    /\ UNCHANGED <<tree_vars, nav_vars, key_vars, thread_vars, tick_target,
                   subscribers, raw, call, svc_vars>>

NextStart ==
    \/ LoadPlugin
    \/ LoadReturn
    \/ \E found \in BOOLEAN : InitDeck(found)
    \/ Main
    \/ \E k \in PushKeys, state \in BOOLEAN : DeviceKeyEvent(k, state)
    \/ PeriodicThread
    \/ HiddenPeriodicThread

SpecStart == InitStart /\ [][NextStart]_vars

\* a key event, a visible tick or a hidden tick has been sent
EventSent ==
    \/ raw # NoRaw
    \/ call.op = "clock/tick"
    \/ (oplog # <<>> /\ oplog[1].ev = "internal_clock_tick")

\* C30: startup ordering. No key event is dispatched and no visible or
\* hidden tick is sent before discover_and_load has returned, that is
\* before the register() of every plugin of the listing that loads has
\* been called and has completed.
StartupOrdering ==
    EventSent =>
        /\ pm.returned
        /\ pm.idx > Len(pm.dirs)
        /\ \A d \in Listed : Manifest(d).importable => StepsOf(d, "register") # {}

\* Two plugins were loaded around a directory that fails, then a key
\* event, two visible ticks and the hidden tick were sent.
StartupOrderingWitness ==
    /\ pm.returned
    /\ pm.started
    /\ Len(pm.dirs) = 3
    /\ Len(pm.plugins) = 2
    /\ raw.key = 0
    /\ call.op = "clock/tick"
    /\ call.time_i = MaxTicks - 1
    /\ oplog # <<>>
    /\ oplog[1].ev = "internal_clock_tick"

\* ------------------------------------------------- SpecLog: the Logger
\* Texts are sequences of characters.  A regular expression is taken as an
\* alternation of literals (a trailing .* changes nothing for re.search).
UpperCase == <<"A", "B", "C", "D", "E", "F", "G", "H", "I", "J", "K", "L", "M",
               "N", "O", "P", "Q", "R", "S", "T", "U", "V", "W", "X", "Y", "Z">>
LowerCase == <<"a", "b", "c", "d", "e", "f", "g", "h", "i", "j", "k", "l", "m",
               "n", "o", "p", "q", "r", "s", "t", "u", "v", "w", "x", "y", "z">>
lower(c) ==
    IF \E i \in 1..Len(UpperCase) : UpperCase[i] = c
    THEN LowerCase[CHOOSE i \in 1..Len(UpperCase) : UpperCase[i] = c]
    ELSE c
lower_text(t) == [i \in 1..Len(t) |-> lower(t[i])]

\* the texts of the labels, sources, messages and patterns used
DEBUGG_T == <<"D", "E", "B", "U", "G", "G">>
DEBUG_T == <<"D", "E", "B", "U", "G">>
INFO_T == <<"I", "N", "F", "O">>
WARNING_T == <<"W", "A", "R", "N", "I", "N", "G">>
WARNINGG_T == <<"W", "A", "R", "N", "I", "N", "G", "G">>
ERROR_T == <<"E", "R", "R", "O", "R">>
CRITICAL_T == <<"C", "R", "I", "T", "I", "C", "A", "L">>
EVENT_T == <<"E", "V", "E", "N", "T">>
error_T == <<"e", "r", "r", "o", "r">>
PANEL_T == <<"P", "a", "n", "e", "l">>
PANELMAIN_T == <<"P", "a", "n", "e", "l", "M", "a", "i", "n">>
OTHER_T == <<"O", "t", "h", "e", "r">>
READ_T == <<"r", "e", "a", "d">>
READY_T == <<"r", "e", "a", "d", "y">>
IGNORED_T == <<"i", "g", "n", "o", "r", "e", "d">>

\* a pattern attribute of LogFilterRule that is None
NoPattern == [set |-> FALSE, alts |-> {}, ignorecase |-> FALSE]
\* re.compile(value, flags)
re_compile(alts, ignorecase) == [set |-> TRUE, alts |-> alts, ignorecase |-> ignorecase]
\* literal occurs in text
occurs(lit, t) ==
    \E i \in 0..(Len(t) - Len(lit)) : \A j \in 1..Len(lit) : t[i + j] = lit[j]
\* pattern.search(text) is not None
search(pattern, t) ==
    \E lit \in pattern.alts :
        IF pattern.ignorecase THEN occurs(lower_text(lit), lower_text(t))
        ELSE occurs(lit, t)

\* LogFilterRule._KEY_MAP.get(key)
_KEY_MAP(key) ==
    CASE key \in {"type", "level", "severity"} -> "level"
      [] key \in {"source", "class", "cls"} -> "source"
      [] key \in {"message", "msg", "text"} -> "message"
      [] OTHER -> None

\* LogFilterRule.from_spec on the tokens key=value of a specification: a
\* later token of a field replaces an earlier one (kwargs[field] = ...).
\* No token, an unknown key or an empty value raise ValueError.
RECURSIVE spec_kwargs(_, _)
spec_kwargs(tokens, kwargs) ==
    IF tokens = <<>> THEN kwargs
    ELSE LET token == Head(tokens)
             field == _KEY_MAP(token.key)
         IN IF field = None \/ token.value = {}
            THEN [kwargs EXCEPT !.raised = "ValueError"]
            ELSE spec_kwargs(Tail(tokens),
                    [kwargs EXCEPT ![field] = re_compile(token.value, field = "level")])
from_spec(tokens) ==
    IF tokens = <<>>
    THEN [level |-> NoPattern, source |-> NoPattern, message |-> NoPattern,
          raised |-> "ValueError"]
    ELSE spec_kwargs(tokens, [level |-> NoPattern, source |-> NoPattern,
                              message |-> NoPattern, raised |-> None])

\* A rule that lets an entry through as soon as one criterion matches.
matches_any(rule, entry) ==
    \/ rule.level.set /\ search(rule.level, entry.label)
    \/ rule.source.set /\ search(rule.source, entry.source)
    \/ rule.message.set /\ search(rule.message, entry.message)

\* LogFilterRule.matches
matches(rule, entry) ==
    IF rule.level.set /\ ~search(rule.level, entry.label) THEN FALSE
    ELSE IF rule.source.set /\ ~search(rule.source, entry.source) THEN FALSE
    ELSE IF rule.message.set /\ ~search(rule.message, entry.message) THEN FALSE
    ELSE TRUE

\* LogLevel(log_level).name
LevelName(l) ==
    CASE l = DEBUGG -> DEBUGG_T
      [] l = DEBUG -> DEBUG_T
      [] l = INFO -> INFO_T
      [] l = WARNING -> WARNING_T
      [] l = ERROR -> ERROR_T
      [] l = CRITICAL -> CRITICAL_T
LogLevels == {DEBUGG, DEBUG, INFO, WARNING, ERROR, CRITICAL}

\* Logger.debug, debugg, info, warning, warningg, error, critical, fatal,
\* event: the level and the label each passes to _log
LogMethods ==
    {[level |-> l, label |-> <<>>] : l \in LogLevels}
        \cup {[level |-> WARNING, label |-> WARNINGG_T],
              [level |-> DEBUG, label |-> EVENT_T]}

\* the specifications given to setup_logger(filters=...)
RuleSpecs ==
    { <<[key |-> "type", value |-> {INFO_T, WARNING_T}],
        [key |-> "source", value |-> {PANEL_T}]>>,
      <<[key |-> "type", value |-> {INFO_T}], [key |-> "source", value |-> {PANEL_T}]>>,
      <<[key |-> "type", value |-> {error_T}]>>,
      <<[key |-> "source", value |-> {PANEL_T}]>>,
      <<[key |-> "level", value |-> {DEBUG_T}], [key |-> "msg", value |-> {READ_T}]>>,
      <<[key |-> "cls", value |-> {OTHER_T}], [key |-> "level", value |-> {EVENT_T}],
        [key |-> "text", value |-> {READ_T}]>>,
      <<[key |-> "colour", value |-> {INFO_T}]>>,
      <<[key |-> "msg", value |-> {}]>> }
FilterSpecs ==
    {<<>>} \cup {<<a>> : a \in RuleSpecs}
        \cup {<<a, b>> : a, b \in {r \in RuleSpecs : Len(r) <= 2 /\ r[1].key # "level"}}
SourcesLogged == {PANELMAIN_T, OTHER_T}
MessagesLogged == {READY_T, IGNORED_T}

\* setup_logger(level, filters): set_level, then configure_filters, which
\* empties _filters and replaces them only when every specification parses
SetupLogger(level, specs) ==
    LET parsed == [i \in 1..Len(specs) |-> from_spec(specs[i])]
        bad == \E i \in 1..Len(specs) : parsed[i].raised # None
    IN /\ logger' = [level |-> level,
                     filters |-> IF bad THEN <<>> ELSE parsed,
                     console |-> <<>>, calls |-> <<>>]
       /\ exc' = IF bad THEN "ValueError" ELSE None
       /\ UNCHANGED <<panel_vars, subscribers, call, pm, ext, simdeck>>

\* Logger._log(msg, log_level, source=source, label=label): calls keeps the
\* entry of this call, console what _console.log received in it
_log(m, source, msg) ==
    LET entry == [level |-> m.level,
                  label |-> IF m.label # <<>> THEN m.label ELSE LevelName(m.level),
                  source |-> source, message |-> msg]
        rule_matches == \E i \in 1..Len(logger.filters) : matches(logger.filters[i], entry)
    IN /\ logger' = [logger EXCEPT
                        !.calls = <<entry>>,
                        !.console = IF logger.level > m.level THEN <<>>
                                    ELSE IF logger.filters # <<>> /\ ~rule_matches THEN <<>>
                                    ELSE <<entry>>]
       /\ exc' = None
       /\ UNCHANGED <<panel_vars, subscribers, call, pm, ext, simdeck>>

InitLog ==
    /\ parent = [p \in {"root"} |-> None]
    /\ items = [p \in {"root"} |-> <<>>]
    /\ pages = [p \in Built |-> _create_pages(p, parent[p], items[p]).pages]
    /\ active = [p \in Built |-> TRUE]
    /\ current_page_number = [p \in Built |-> 0]
    /\ ctx_active_panel = None
    /\ pressed = {}
    /\ key_states = {}
    /\ pc = "idle"
    /\ kt = NoHandoff
    /\ last_render = NoRender
    /\ tick_target = None
    /\ subscribers = Subscriptions(Built)
    /\ raw = NoRaw
    /\ call = NoCall
    /\ pm = NoPlugins
    /\ ext = NoExternal
    /\ InitIo
    /\ oplog = <<>>
    /\ exc = None

NextLog ==
    \/ \E level \in LogLevels, specs \in FilterSpecs : SetupLogger(level, specs)
    \/ \E m \in LogMethods, source \in SourcesLogged, msg \in MessagesLogged :
          _log(m, source, msg)

SpecLog == InitLog /\ [][NextLog]_vars

\* every criterion the rule declares matches the entry
AllCriteriaMatch(rule, entry) ==
    /\ rule.level.set => search(rule.level, entry.label)
    /\ rule.source.set => search(rule.source, entry.source)
    /\ rule.message.set => search(rule.message, entry.message)

\* C31: log filtering. An entry is emitted if and only if its level is at
\* or above the configured threshold and either no filter is configured or
\* at least one configured rule matches; a rule matches if and only if
\* every criterion it declares (level, source, message) matches.
LogFiltering ==
    logger.calls # <<>> =>
        LET entry == logger.calls[1]
        IN /\ logger.console \in {<<>>, <<entry>>}
           /\ logger.console = <<entry>>
                <=> /\ entry.level >= logger.level
                    /\ \/ logger.filters = <<>>
                       \/ \E i \in 1..Len(logger.filters) :
                             AllCriteriaMatch(logger.filters[i], entry)

\* The logger of test_multiple_filters_work_as_or at level DEBUG lets the
\* info entry of PanelMain through: the second rule matches, the first not.
LogFilteringWitness ==
    /\ logger.level = DEBUG
    /\ Len(logger.filters) = 2
    /\ logger.filters[1].level.alts = {error_T}
    /\ logger.filters[2].source.alts = {PANEL_T}
    /\ logger.calls # <<>>
    /\ logger.calls[1].level = INFO
    /\ logger.calls[1].source = PANELMAIN_T
    /\ logger.console = logger.calls

\* ------------------------------------- further navigation properties
\* C34: in every quiescent state from the construction of the root on,
\* Context.active_panel designates the one Panel whose active flag is True,
\* and the active-panel lookup of PanelRegistry (root.get_active_panel())
\* returns that Panel.
ActiveReference ==
    pc = "idle" =>
        \E p \in Built :
            /\ ActivePanels = {p}
            /\ ctx_active_panel = p
            /\ get_active_panel("root") = p

\* ----------------------------- SpecRace: the tick thread and the key thread
\* The keys worked while a tick is under way: the slot of the sub-panel (of
\* the Parent and PreviousPage buttons) and the slot of the NextPage button.
RaceKeys == {0, capacity - 1}

\* root holds the sub-panel A and one button; A holds capacity buttons and
\* so has two pages.
InitRace ==
    /\ parent = [p \in {"root", "A"} |-> IF p = "root" THEN None ELSE "root"]
    /\ items = [p \in {"root", "A"} |->
                   IF p = "root" THEN <<PanelItem("A"), Button("root", 1)>>
                   ELSE ButtonsNamed(p, capacity)]
    /\ pages = [p \in Built |-> _create_pages(p, parent[p], items[p]).pages]
    /\ active = [p \in Built |-> p = "root"]
    /\ current_page_number = [p \in Built |-> 0]
    /\ ctx_active_panel = None
    /\ pressed = {}
    /\ key_states = {}
    /\ pc = "idle"
    /\ kt = NoHandoff
    /\ last_render = NoRender
    /\ tick_target = None
    /\ subscribers = Subscriptions(Built)
    /\ raw = NoRaw
    /\ call = NoCall
    /\ pm = NoPlugins
    /\ ext = NoExternal
    /\ InitIo
    /\ oplog = <<>>
    /\ exc = None

\* _send_periodic_event sends CLOCK_TICK to Context.active_panel, whose
\* on_periodic_tick starts `for i, page_item in
\* enumerate(self.pages[self.current_page_number])`: the page is looked up
\* once, the loop then walks that page.  No lock is taken.
TickStart ==
    /\ call.op # "tick"
    /\ ctx_active_panel \in Built
    /\ ~page_index_raises(ctx_active_panel)
    /\ call' = [op |-> "tick", user |-> ctx_active_panel,
                page |-> current_page(ctx_active_panel).items, i |-> 0,
                key |-> -1, item |-> NoItem]
    /\ tick_target' = ctx_active_panel
    /\ exc' = None
    /\ UNCHANGED <<tree_vars, nav_vars, key_vars, thread_vars, subscribers,
                   raw, oplog, svc_vars>>

\* One pass of the loop of Panel.on_periodic_tick: a Button gets CLOCK_TICK,
\* and the KeyDisplay it returns, if any, is written to key i by
\* render_key.  Button.on_periodic_tick returns None; the buttons that
\* override it (clocks, countdowns) return a KeyDisplay or None.
TickStep ==
    /\ call.op = "tick"
    /\ IF call.i >= Len(call.page)
       THEN call' = NoCall
       ELSE LET item == call.page[call.i + 1].item
            IN \E key_display \in IF item.kind = "Button" THEN BOOLEAN ELSE {FALSE} :
                  call' = [call EXCEPT
                              !.i = @ + 1,
                              !.key = IF key_display THEN call.i ELSE -1,
                              !.item = IF key_display THEN item ELSE NoItem]
    /\ exc' = None
    /\ UNCHANGED <<tree_vars, nav_vars, key_vars, thread_vars, tick_target,
                   subscribers, raw, oplog, svc_vars>>

NextRace ==
    \/ \E k \in RaceKeys : OnKeyPressed(k)
    \/ \E k \in RaceKeys : OnKeyReleased(k)
    \/ HandoffComplete
    \/ TickStart
    \/ TickStep

SpecRace == InitRace /\ [][NextRace]_vars

\* the step is a write of the tick thread to a key
TickWrites == call'.op = "tick" /\ call.op = "tick" /\ call'.i = call.i + 1 /\ call'.key >= 0

\* C35: under any interleaving of the visible-tick thread with the key
\* handling, a tick never writes to key i the Display Descriptor of an Item
\* other than the Item mapped to slot i of the current page of a Panel that
\* is active at the time of the write (so that, once a navigation and the
\* tick in flight are over, no key shows an Item that is not mapped to it).
TickWritesCurrent ==
    [][TickWrites =>
          \E p \in ActivePanels :
              /\ ~page_index_raises(p)
              /\ ~get_item_raises(current_page(p), call'.key)
              /\ get_item(current_page(p), call'.key) = call'.item]_vars

\* ------------------------------------------ SpecRefresh: Panel.refresh_me
\* PanelPage.get_item_position raises ValueError when no PageItem holds the
\* item ...
get_item_position_raises(page, item) ==
    ~ \E i \in 1..Len(page.items) : page.items[i].item = item
\* ... and otherwise returns the position of the first that does
get_item_position(page, item) ==
    page.items[CHOOSE i \in 1..Len(page.items) :
                  /\ page.items[i].item = item
                  /\ \A m \in 1..(i - 1) : page.items[m].item # item].position

\* The Items refresh_me is called with: the children of the two Panels and
\* a navigation button.
RefreshItems ==
    UNION {ChildrenOf(q) : q \in Built} \cup {ParentButton("A")}

\* Panel.refresh_me(item): for a child of an active Panel, the position of
\* the item on the current page is looked up, and the KeyDisplay the item
\* returns for ITEM_RENDERED is drawn on that key.
RefreshMe(p, item) ==
    LET head == <<LogEntry("refresh_me", p, -1, item, "None")>>
    IN /\ IF NameInItems(p, item) /\ active[p]
          THEN IF page_index_raises(p)
               THEN exc' = "IndexError" /\ oplog' = head
               ELSE IF get_item_position_raises(current_page(p), item)
               THEN exc' = "ValueError" /\ oplog' = head
               ELSE /\ exc' = None
                    /\ oplog' = Append(head,
                          LogEntry("render_key", p,
                                   get_item_position(current_page(p), item),
                                   item, "inactive"))
          ELSE exc' = None /\ oplog' = head
       /\ UNCHANGED <<tree_vars, nav_vars, key_vars, thread_vars, tick_target,
                      subscribers, raw, call, svc_vars>>

NextRefresh ==
    \/ \E k \in RaceKeys : OnKeyPressed(k)
    \/ \E k \in RaceKeys : OnKeyReleased(k)
    \/ HandoffComplete
    \/ \E p \in Built, item \in RefreshItems : RefreshMe(p, item)

SpecRefresh == InitRace /\ [][NextRefresh]_vars

\* item is shown on the page p stands on
OnCurrentPage(p, item) ==
    \E i \in 1..Len(pages[p][current_page_number[p] + 1].items) :
        pages[p][current_page_number[p] + 1].items[i].item = item

\* C36: refresh_me(item) never raises. When the Panel is inactive, or the
\* item is not one of its children, or the item is a child that is not on
\* the current page, nothing is rendered and the call returns normally;
\* when the Panel is active and the item is on the current page, exactly
\* the key at the item's position is rendered.
RefreshMeSafe ==
    [][(oplog' # oplog /\ oplog' # <<>> /\ oplog'[1].ev = "refresh_me")
        => LET p == oplog'[1].panel
               item == oplog'[1].item
           IN /\ exc' = None
              /\ IF active[p] /\ NameInItems(p, item) /\ OnCurrentPage(p, item)
                 THEN /\ Len(oplog') = 2
                      /\ oplog'[2].ev = "render_key"
                      /\ oplog'[2].item = item
                      /\ get_item(current_page(p), oplog'[2].key) = item
                 ELSE Len(oplog') = 1]_vars

\* -------------------------------- SpecLoad: plugins that fail while loading
\* The plugin directories found, one of them with a register() that raises.
LoadDirs == {"obs", "pomodoro", "ghost", "crash"}
LoadListings ==
    {ds \in UNION {[1..n -> LoadDirs] : n \in 0..Cardinality(LoadDirs)} :
        \A i, j \in DOMAIN ds : i # j => ds[i] # ds[j]}

InitLoad ==
    /\ parent = [p \in {"root"} |-> None]
    /\ items = [p \in {"root"} |-> ButtonsNamed(p, 1)]
    /\ pages = [p \in Built |-> _create_pages(p, parent[p], items[p]).pages]
    /\ active = [p \in Built |-> TRUE]
    /\ current_page_number = [p \in Built |-> 0]
    /\ ctx_active_panel = None
    /\ pressed = {}
    /\ key_states = {}
    /\ pc = "idle"
    /\ kt = NoHandoff
    /\ last_render = NoRender
    /\ tick_target = None
    /\ subscribers = [t \in KeyTopics \cup HookTopics |->
                         IF t \in KeyTopics THEN Subscriptions(Built)[t] ELSE <<>>]
    /\ raw = NoRaw
    /\ call = NoCall
    /\ \E ds \in LoadListings : pm = [NoPlugins EXCEPT !.dirs = ds]
    /\ ext = NoExternal
    /\ InitIo
    /\ oplog = <<>>
    /\ exc = None

NextLoad ==
    \/ LoadPlugin
    \/ LoadReturn

SpecLoad == InitLoad /\ [][NextLoad]_vars

\* C37: plugin load is all-or-nothing with respect to the tree. After
\* discover_and_load, a plugin whose loading failed at any step is absent
\* from the list of loaded plugins, and none of its declared panels is a
\* child of any Panel of the tree.
LoadAllOrNothing ==
    pm.returned =>
        \A d \in Listed :
            StepsOf(d, "failed") # {}
                => /\ d \notin Loaded
                   /\ \A i \in 1..Len(Manifest(d).panels) :
                         \A q \in Built :
                             ~NameInItems(q, PanelItem(Manifest(d).panels[i].name))

\* ------------------------------- SpecSubs: the subscriptions of the Items
\* The layouts computed for one Panel in one run.
MaxLayouts == 3
\* The children given to the sub-panel.
MaxSubsChildren == 16
\* The topics every Item subscribes in Item.__init__ that the two tick
\* threads use: CLOCK_TICK and INTERNAL_CLOCK_TICK.
TickTopics == {"clock/tick", "INTERNAL_CLOCK_TICK"}

\* A subscription of an Item object.  The navigation buttons of a Panel are
\* new objects in every call of _create_pages: gen tells those of one call
\* from those of another (0 for the objects built once).
ItemSubscription(item, gen) ==
    [user |-> item, gen |-> gen, callback |-> "on_periodic_tick"]

\* the navigation buttons _create_pages constructed for these pages, in the
\* order of construction
RECURSIVE NavButtonsBuilt(_)
NavButtonsBuilt(ps) ==
    IF ps = <<>> THEN <<>>
    ELSE SelectSeq(PageContent(Head(ps)), LAMBDA item : item.kind \in NavKinds)
            \o NavButtonsBuilt(Tail(ps))

\* the subscriptions after the Items its were constructed
Subscribed(subs, its, gen) ==
    [t \in TickTopics |->
        subs[t] \o [i \in 1..Len(its) |-> ItemSubscription(its[i], gen)]]

\* PanelRegistry has built root and its sub-panel A: each Panel.__init__
\* subscribes the Panel and computes its pages once (line 1140), and root
\* is built before A.
InitSubs ==
    /\ parent = [p \in {"root", "A"} |-> IF p = "root" THEN None ELSE "root"]
    /\ items = [p \in {"root", "A"} |->
                   IF p = "root" THEN <<PanelItem("A")>> ELSE <<>>]
    /\ pages = [p \in Built |-> _create_pages(p, parent[p], items[p]).pages]
    /\ active = [p \in Built |-> p = "root"]
    /\ current_page_number = [p \in Built |-> 0]
    /\ ctx_active_panel = None
    /\ pressed = {}
    /\ key_states = {}
    /\ pc = "idle"
    /\ kt = NoHandoff
    /\ last_render = NoRender
    /\ tick_target = None
    /\ subscribers =
          [t \in TickTopics |->
              <<ItemSubscription(PanelItem("root"), 0),
                ItemSubscription(PanelItem("A"), 0),
                ItemSubscription(ParentButton("A"), 1)>>]
    /\ raw = NoRaw
    /\ call = [op |-> "layout", gen |-> [p \in {"root", "A"} |-> 1]]
    /\ pm = NoPlugins
    /\ ext = NoExternal
    /\ InitIo
    /\ oplog = <<>>
    /\ exc = None

\* Button(name, parent=p) is constructed, which subscribes it, and
\* p.add_button(button) puts it among the children of p.
SubsAddButton(p) ==
    /\ Len(items[p]) < MaxSubsChildren
    /\ LET b == Button(p, Cardinality(ButtonsOf(p)) + 1)
       IN /\ items' = add_item(p, b)
          /\ subscribers' = Subscribed(subscribers, <<b>>, 0)
    /\ exc' = None
    /\ UNCHANGED <<parent, pages, nav_vars, key_vars, thread_vars, tick_target,
                   raw, call, oplog, svc_vars>>

\* p.refresh_layout(): self.pages = self._create_pages(self.items).  The
\* navigation buttons of the new pages are constructed, and so subscribed;
\* nothing is unsubscribed.
SubsRefreshLayout(p) ==
    /\ call.gen[p] < MaxLayouts
    /\ refresh_layout(p, items)
    /\ LET r == _create_pages(p, parent[p], items[p])
       IN subscribers' = Subscribed(subscribers, NavButtonsBuilt(r.pages),
                                    call.gen[p] + 1)
    /\ call' = [call EXCEPT !.gen[p] = @ + 1]
    /\ UNCHANGED <<parent, items, nav_vars, key_vars, thread_vars, tick_target,
                   raw, oplog, svc_vars>>

NextSubs ==
    \/ SubsAddButton("A")
    \/ \E p \in Built : SubsRefreshLayout(p)

SpecSubs == InitSubs /\ [][NextSubs]_vars

\* the Item objects in the tree: the Panels, their children, and the
\* navigation buttons on the pages the Panels hold now
ItemsInTree ==
    {[user |-> PanelItem(p), gen |-> 0] : p \in Built}
        \cup {[user |-> c, gen |-> 0] : c \in UNION {ChildrenOf(p) : p \in Built}}
        \cup UNION {{[user |-> ItemAt(p, x), gen |-> call.gen[p]] :
                        x \in {y \in Slots(p) : IsNav(ItemAt(p, y))}} : p \in Built}
\* the objects holding a subscription on topic t
Recipients(t) ==
    {[user |-> subscribers[t][i].user, gen |-> subscribers[t][i].gen] :
        i \in 1..Len(subscribers[t])}

\* C38: after any sequence of constructions and refresh_layout calls, the
\* Items whose handler is subscribed to the hidden periodic tick (and to
\* the other topics of the event bus) are the Items in the tree: the
\* Panels' children and the navigation buttons on the Panels' present
\* pages.  Repaginating leaves no subscription of a discarded navigation
\* button behind.
SubscribersInTree ==
    \A t \in TickTopics : Recipients(t) = ItemsInTree

\* ------------------------------------ SpecSim: the keys of StreamDeckSim
\* StreamDeckOriginalSim.KEY_COUNT
KEY_COUNT == 15
\* The calls of key_callback in one run.
MaxCallbacks == 4
\* The keys given to press_key and release_key: the first and the last key
\* of the deck, and the first index past it.
SimKeys == {0, KEY_COUNT - 1, KEY_COUNT}

\* `if key < 0 or key >= self.KEY_COUNT: raise IndexError`
invalid_key(key) == key < 0 \/ key >= KEY_COUNT

\* StreamDeckSim() then set_key_callback(callback)
InitSim ==
    /\ parent = [p \in {"root"} |-> None]
    /\ items = [p \in {"root"} |-> <<>>]
    /\ pages = [p \in Built |-> _create_pages(p, parent[p], items[p]).pages]
    /\ active = [p \in Built |-> TRUE]
    /\ current_page_number = [p \in Built |-> 0]
    /\ ctx_active_panel = None
    /\ pressed = {}
    /\ key_states = {}
    /\ pc = "idle"
    /\ kt = NoHandoff
    /\ last_render = NoRender
    /\ tick_target = None
    /\ subscribers = Subscriptions(Built)
    /\ raw = NoRaw
    /\ call = NoCall
    /\ pm = NoPlugins
    /\ ext = NoExternal
    /\ logger = NoLogger
    /\ simdeck = [NoSim EXCEPT !.key_callback = TRUE]
    /\ oplog = <<>>
    /\ exc = None

\* StreamDeckSim.open
SimOpen ==
    /\ simdeck' = [simdeck EXCEPT !.is_open = TRUE]
    /\ exc' = None
    /\ UNCHANGED <<panel_vars, subscribers, call, pm, ext, logger>>

\* StreamDeckSim.close
SimClose ==
    /\ simdeck' = [simdeck EXCEPT !.is_open = FALSE]
    /\ exc' = None
    /\ UNCHANGED <<panel_vars, subscribers, call, pm, ext, logger>>

\* what press_key and release_key do once the key went to the state `state`
key_changed(s, key, state) ==
    [s EXCEPT !.key_states = IF state THEN @ \cup {key} ELSE @ \ {key},
              !.delivered = IF s.key_callback /\ s.is_open
                            THEN Append(@, [key |-> key, state |-> state])
                            ELSE @]

\* StreamDeckSim.press_key(key)
PressKey(key) ==
    /\ Len(simdeck.delivered) < MaxCallbacks
    /\ IF invalid_key(key)
       THEN exc' = "IndexError" /\ UNCHANGED simdeck
       ELSE /\ exc' = None
            /\ simdeck' = IF key \notin simdeck.key_states
                      THEN key_changed(simdeck, key, TRUE) ELSE simdeck
    /\ UNCHANGED <<panel_vars, subscribers, call, pm, ext, logger>>

\* StreamDeckSim.release_key(key)
ReleaseKey(key) ==
    /\ Len(simdeck.delivered) < MaxCallbacks
    /\ IF invalid_key(key)
       THEN exc' = "IndexError" /\ UNCHANGED simdeck
       ELSE /\ exc' = None
            /\ simdeck' = IF key \in simdeck.key_states
                      THEN key_changed(simdeck, key, FALSE) ELSE simdeck
    /\ UNCHANGED <<panel_vars, subscribers, call, pm, ext, logger>>

NextSim ==
    \/ SimOpen
    \/ SimClose
    \/ \E key \in SimKeys : PressKey(key)
    \/ \E key \in SimKeys : ReleaseKey(key)

SpecSim == InitSim /\ [][NextSim]_vars

\* the states key_callback received for this key, in order
DeliveredFor(key) ==
    LET d == SelectSeq(simdeck.delivered, LAMBDA c : c.key = key)
    IN [i \in 1..Len(d) |-> d[i].state]

\* C40: the callbacks delivered for a key alternate pressed / released,
\* starting with pressed, whatever open, close, press_key and release_key
\* calls are made; press_key on a key that is down and release_key on a
\* key that is up deliver no callback and leave key_states as it is.
KeyProtocol ==
    /\ [](\A key \in SimKeys :
            \A i \in 1..Len(DeliveredFor(key)) :
                DeliveredFor(key)[i] = (i % 2 = 1))
    /\ [][\A key \in SimKeys :
            /\ (PressKey(key) /\ key \in simdeck.key_states) => UNCHANGED simdeck
            /\ (ReleaseKey(key) /\ ~invalid_key(key) /\ key \notin simdeck.key_states)
                    => UNCHANGED simdeck]_vars

====
